---- MODULE Spec2Model ----
(***************************************************************************)
(* The crawl engine of seo-crawler: WebCrawler (src/src/crawler.py), its   *)
(* store (src/src/crawl_db.py) and the link manager it drives.             *)
(*                                                                         *)
(* Threads: the API caller (start/stop/pause/resume/resume_from_database), *)
(* the crawl worker (_crawl_worker or _crawl_async_with_js), the fetch     *)
(* tasks of the pool, the auto-save thread.  The process may be            *)
(* terminated at any time; the store survives.                             *)
(***************************************************************************)
EXTENDS Integers, Sequences, FiniteSets, TLC

VARIABLES
    config,           \* self.config (the keys the engine reads)
    is_running,       \* self.is_running
    is_paused,        \* self.is_paused
    crawl_results,    \* self.crawl_results: list of URL records
    stats,            \* self.stats: crawled, depth
    link_manager,     \* self.link_manager: queue, sets, links, source_pages
    db_save_enabled,  \* self.db_save_enabled (crawl_id is set with it)
    unsaved_urls,     \* self.unsaved_urls
    unsaved_links,    \* self.unsaved_links
    active_futures,   \* active_futures / active_tasks: fetch tasks in flight
    pc,               \* position of the crawl worker thread
    stop_pc,          \* position of a stop_crawl call
    pause_pc,         \* position of a pause_crawl call
    auto_save_alive,  \* the auto-save thread runs
    db,               \* the crawls row and its url / link rows
    next_id,          \* identity of the next result dict created
    seed_url,         \* the url start_crawl was given (0: never started)
    resumed,          \* the stored status resume_from_database found ("no":
                      \* the crawl was never restored from the store)
    calls,            \* stop / pause / resume calls, auto-saves, terminations
                      \* and failed store writes so far
    fetch,            \* the locals of one _crawl_url_with_requests call
    scan,             \* the locals of _discover_and_add_sitemap_urls
    detected_issues,  \* issue_detector.detected_issues
    crawler_instances,\* main.py's registry: session_id -> its entry
    sessions,         \* what surrounds the registry: the clock, the cleanup
                      \* thread's position and locals, the objects handed out
    renderer,         \* a JavaScriptRenderer and the render_page calls on it
    threads           \* start_crawl calls, crawl threads and auto-save threads
                      \* followed one by one, each with its position

vars == <<config, is_running, is_paused, crawl_results, stats, link_manager,
          db_save_enabled, unsaved_urls, unsaved_links, active_futures, pc,
          stop_pc, pause_pc, auto_save_alive, db, next_id, seed_url, resumed,
          calls, fetch, scan, detected_issues, crawler_instances, sessions,
          renderer, threads>>

\* The state the crawl engine's steps below treat as a whole: a fetch, the
\* sitemap scan and the issue detector's passes are single steps there, and
\* are followed step by step in the specifications further down.
unit_vars == <<fetch, scan, detected_issues, crawler_instances, sessions,
               renderer, threads>>

\* The state of the application around the crawl engine: the session
\* registry and a browser page pool, followed in specifications of their own.
service_vars == <<crawler_instances, sessions, renderer, threads>>

(***************************************************************************)
(* Bounds of the model.                                                    *)
(***************************************************************************)
MaxWorkers == 2        \* concurrency / js_max_concurrent_pages range 1..MaxWorkers
MaxDepthCfg == 2       \* configured max_depth ranges 1..MaxDepthCfg
SmallBudget == 2       \* the small max_urls value tried beside the default
MaxCalls == 2          \* stop / pause / resume calls, auto-saves, process
                       \* terminations and failed store writes explored in one run

MaxClock == 120        \* minutes of wall-clock time followed
MaxInstances == 3      \* registry entries created in one run
MaxInits == 2          \* initialize() calls on one renderer
MaxStarts == 2         \* start_crawl calls that get past their first test

(***************************************************************************)
(* Program constants.                                                      *)
(***************************************************************************)
InstanceTimeout == 60  \* timedelta(hours=1), in minutes
SweepEvery == 5        \* time.sleep(300), in minutes
SessionIds == {"s1", "s2"}
RenderCalls == 1..(MaxWorkers + 1)
StartCalls == {"first", "second"}
SaveCallers == {"fetch", "auto_save"}
DefaultMaxUrls == 1000
DefaultMaxDepth == 3
DefaultConcurrency == 5
DefaultJsPages == 3
batch_save_size == 50
CheckpointLimit == 1000
RebuildDepth == 1

(***************************************************************************)
(* The fixture site.  1 is the root page https://example.test/ ; 2..4 are  *)
(* internal pages with a path, 4 being linked from no page and listed in   *)
(* the sitemap; 5 is internal and disallowed by robots.txt; 6 is on        *)
(* another host.  Anchors are in document order.                           *)
(***************************************************************************)
Urls == {1, 2, 3, 4, 5, 6}
InternalUrls == {1, 2, 3, 4, 5}
RobotsDisallowed == {5}
SitemapUrls == <<4, 5>>

Anchors(u) ==
    CASE u = 1 -> <<2, 3, 6>>
      [] u = 2 -> <<3, 5>>
      [] u = 3 -> <<1>>
      [] u = 4 -> <<2>>
      [] OTHER -> <<>>

Range(s) == {s[i] : i \in DOMAIN s}
Min(a, b) == IF a <= b THEN a ELSE b

Terminal == {"completed", "stopped", "failed"}

(***************************************************************************)
(* Configuration.                                                          *)
(***************************************************************************)
SetMax(S) == CHOOSE x \in S : \A y \in S : y <= x

DefaultIncludeExtensions == {"html", "htm", "php", "asp", "aspx", "jsp"}
DefaultExcludeExtensions == {"pdf", "doc", "docx", "zip", "exe", "dmg"}
DefaultRetries == 3
\* 0.85, in the unit of content_similarity below (1/10000)
DefaultDuplicationThreshold == 8500
\* Of the default issue_exclusion_patterns, the first: /wp-admin/*
DefaultExclusionPatterns == {<<"/", "wp-admin", "/", "*">>}
DefaultMaxFileSize == 52428800

DefaultConfig ==
    [max_depth |-> DefaultMaxDepth, max_urls |-> DefaultMaxUrls, delay |-> 1,
     concurrency |-> DefaultConcurrency, js_max_concurrent_pages |-> DefaultJsPages,
     js_browser |-> "chromium",
     enable_javascript |-> FALSE, discover_sitemaps |-> TRUE,
     crawl_external |-> FALSE, respect_robots |-> TRUE,
     retries |-> DefaultRetries, max_file_size |-> DefaultMaxFileSize,
     include_extensions |-> DefaultIncludeExtensions,
     exclude_extensions |-> DefaultExcludeExtensions,
     include_patterns |-> {}, exclude_patterns |-> {},
     duplication_threshold |-> DefaultDuplicationThreshold,
     issue_exclusion_patterns |-> DefaultExclusionPatterns]

\* The configurations update_config installs before a crawl is started:
\* every depth, budget, pool size and fetch path with the default delay and
\* no sitemap discovery; the widest of them with delay 0; and, with sitemap
\* discovery, every depth, budget and fetch path on a pool of one.
CoreConfigs ==
    {[DefaultConfig EXCEPT !.max_depth = d, !.max_urls = m,
                           !.concurrency = w, !.js_max_concurrent_pages = w,
                           !.enable_javascript = js, !.discover_sitemaps = FALSE] :
        d \in 1..MaxDepthCfg, m \in {SmallBudget, DefaultMaxUrls},
        w \in 1..MaxWorkers, js \in BOOLEAN}

FastConfigs ==
    {[c EXCEPT !.delay = 0] :
        c \in {x \in CoreConfigs : /\ x.max_depth = MaxDepthCfg
                                   /\ x.max_urls = DefaultMaxUrls
                                   /\ x.concurrency = MaxWorkers}}

SitemapConfigs ==
    {[c EXCEPT !.discover_sitemaps = TRUE] :
        c \in {x \in CoreConfigs : x.concurrency = 1}}

Configs == CoreConfigs \cup FastConfigs \cup SitemapConfigs

(***************************************************************************)
(* Link manager (src/core/link_manager.py is not among the sources; its    *)
(* operations follow section 4.5 of the specification).                    *)
(***************************************************************************)
EmptyLinkManager ==
    [discovered_urls |-> <<>>, all_discovered_urls |-> {}, visited_urls |-> {},
     all_links |-> <<>>, source_pages |-> [u \in Urls |-> {}]]

is_internal(url) == url \in InternalUrls

add_url(lm, url, depth) ==
    IF url \in lm.all_discovered_urls THEN lm
    ELSE [lm EXCEPT !.discovered_urls = Append(@, <<url, depth>>),
                    !.all_discovered_urls = @ \cup {url}]

LinkRecord(source, target) ==
    [source_url |-> source, target_url |-> target, is_internal |-> is_internal(target)]

LinkKeys(links) == {<<links[i].source_url, links[i].target_url>> : i \in DOMAIN links}

RECURSIVE collect_anchors(_, _, _)
collect_anchors(lm, source, anchors) ==
    IF anchors = <<>> THEN lm
    ELSE LET t == Head(anchors)
             lm1 == [lm EXCEPT
                        !.all_links = IF <<source, t>> \in LinkKeys(@) THEN @
                                      ELSE Append(@, LinkRecord(source, t)),
                        !.source_pages[t] = @ \cup {source}]
         IN collect_anchors(lm1, source, Tail(anchors))

collect_all_links(lm, source) == collect_anchors(lm, source, Anchors(source))

get_source_pages(lm, url) == lm.source_pages[url]

\* A url as _should_crawl_url sees it: whether the link manager takes it for
\* internal, whether robots.txt allows it, and its path as a sequence of
\* tokens, "/" and "." among them.  The fixture urls are the root page and
\* inner pages without a file extension.
UrlFacts(url) ==
    [internal |-> is_internal(url), robots_ok |-> url \notin RobotsDisallowed,
     path |-> IF url = 1 THEN <<"/">> ELSE <<"/", "page">>]

\* The positions of "." in a path.
Dots(path) == {i \in DOMAIN path : path[i] = "."}

\* path.split('.')[-1]: what follows the last "." of the path.
split_extension(path) == SubSeq(path, SetMax(Dots(path)) + 1, Len(path))

\* extension in <list>: the lists hold single words.
in_extensions(extension, list) == Len(extension) = 1 /\ extension[1] \in list

\* re.search(pattern, url) for a literal pattern: the empty pattern matches
\* every url, a word matches the urls that contain it.
re_search(pattern, path) == pattern = "" \/ \E i \in DOMAIN path : path[i] = pattern

\* if pattern and re.search(pattern, url): a blank entry of a pattern list
\* is no pattern.
pattern_matches(pattern, path) == pattern # "" /\ re_search(pattern, path)

\* _should_crawl_url over the facts of a url.
should_crawl(cfg, u) ==
    /\ (~cfg.crawl_external => u.internal)
    /\ (cfg.respect_robots => u.robots_ok)
    /\ Dots(u.path) # {} =>
          /\ ~in_extensions(split_extension(u.path), cfg.exclude_extensions)
          /\ cfg.include_extensions # {}
                => in_extensions(split_extension(u.path), cfg.include_extensions)
    /\ ~\E pattern \in cfg.exclude_patterns : pattern_matches(pattern, u.path)
    /\ cfg.include_patterns # {}
          => \E pattern \in cfg.include_patterns : pattern_matches(pattern, u.path)

should_crawl_url(cfg, url) == should_crawl(cfg, UrlFacts(url))

RECURSIVE add_urls(_, _, _, _)
add_urls(lm, cfg, urls, depth) ==
    IF urls = <<>> THEN lm
    ELSE add_urls(IF should_crawl_url(cfg, Head(urls))
                  THEN add_url(lm, Head(urls), depth) ELSE lm,
                  cfg, Tail(urls), depth)

extract_links(lm, cfg, source, next_depth) == add_urls(lm, cfg, Anchors(source), next_depth)

(***************************************************************************)
(* The store (src/src/crawl_db.py): one crawls row with its url and link   *)
(* rows and its checkpoint blob.                                           *)
(***************************************************************************)
NoCheckpoint == [present |-> FALSE, discovered_urls |-> <<>>, visited_urls |-> {}]

NoCrawlRow ==
    [exists |-> FALSE, status |-> "none", config_snapshot |-> DefaultConfig,
     urls |-> <<>>, links |-> <<>>, max_depth_reached |-> 0,
     resume_checkpoint |-> NoCheckpoint,
     user_id |-> 0]          \* the owner; 0 stands for None (a guest's crawl)

create_crawl(cfg) ==
    [NoCrawlRow EXCEPT !.exists = TRUE, !.status = "running", !.config_snapshot = cfg]

set_crawl_status(d, status) == [d EXCEPT !.status = status]

\* _save_batch_to_db: the rows written and the statistics updated.
save_batch_to_db(d, enabled, urls, links, st) ==
    IF ~enabled THEN d
    ELSE [d EXCEPT !.urls = @ \o urls, !.links = @ \o links,
                   !.max_depth_reached = st.depth]

\* save_url_batch / save_links_batch catch their own exception and return
\* False: a flush whose batch write fails leaves the rows unwritten, and
\* _save_batch_to_db goes on to update_crawl_stats.
failed_batch_write(d, st) == [d EXCEPT !.max_depth_reached = st.depth]

\* _save_batch_to_db(force=True) with the batch write succeeding or failing.
flush_batch(d, urls, links, st, written) ==
    IF written THEN save_batch_to_db(d, TRUE, urls, links, st)
    ELSE failed_batch_write(d, st)

\* _save_queue_checkpoint: the first CheckpointLimit pending entries and
\* the visited set.
save_queue_checkpoint(d, enabled, lm) ==
    IF ~enabled THEN d
    ELSE [d EXCEPT !.resume_checkpoint =
             [present |-> TRUE,
              discovered_urls |-> SubSeq(lm.discovered_urls, 1,
                                         Min(Len(lm.discovered_urls), CheckpointLimit)),
              visited_urls |-> lm.visited_urls]]

\* The outcomes of the batch write of a flush made after n counted events:
\* it can fail only when there are rows to write.
write_outcomes(n) ==
    IF /\ db_save_enabled
       /\ (unsaved_urls # <<>> \/ unsaved_links # <<>>)
       /\ n < MaxCalls
    THEN BOOLEAN ELSE {TRUE}

(***************************************************************************)
(* Construction and start.                                                 *)
(***************************************************************************)
NoFetch == [phase |-> "idle"]
NoScan == [pending |-> <<>>, filtered |-> {}]

\* The application before any request: the clock at its origin, the cleanup
\* thread in its first sleep, no object handed out.
NoSessions ==
    [clock |-> 0, cleanup_pc |-> "sleep", now |-> 0, wake_at |-> SweepEvery,
     made |-> 0, stopped |-> {}, looked_up |-> <<>>,
     since |-> [s \in SessionIds |-> {}], handed |-> [s \in SessionIds |-> {}]]

\* A JavaScriptRenderer as its constructor leaves it: no playwright handle,
\* no browser, an empty pool. Browsers and pages are named by the order of
\* their creation; 0 stands for None.
NoRenderer ==
    [playwright |-> 0, browser |-> 0, page_pool |-> <<>>,
     started |-> 0,          \* playwright handles started so far
     launched |-> <<>>,      \* every browser obtained so far: its kind, open or not
     page_browser |-> <<>>,  \* per page created so far, the browser it belongs to
     closed |-> {},          \* pages whose context was closed
     rendering |-> [c \in RenderCalls |-> 0],  \* per render_page call, its page
     answer |-> "",          \* error message of the last render_page return
     cleanup_pc |-> "idle",  \* position of a cleanup() call
     torn_down |-> FALSE,    \* a cleanup() completed and no initialize() since
     remote |-> FALSE]       \* the environment sets REMOTE_BROWSER

\* The threads of an orchestrator nobody has called yet: no start_crawl
\* call in progress, no crawl thread and no auto-save thread ever started.
NoThreads ==
    [start |-> [c \in StartCalls |-> [pc |-> "idle", url |-> 0, with_session |-> FALSE]],
     workers |-> <<>>,       \* per crawl thread started so far, its position
     savers |-> <<>>,        \* per auto-save thread started so far, its position
     started |-> 0,          \* start_crawl calls that passed the is_running test
     overlapped |-> FALSE,   \* some call began during another call or crawl
     saving |-> [t \in SaveCallers |-> "idle"],  \* per _save_batch_to_db call, its position
     configured |-> DefaultMaxDepth]  \* the max_depth last configured

Init ==
    /\ config \in Configs
    /\ is_running = FALSE
    /\ is_paused = FALSE
    /\ crawl_results = <<>>
    /\ stats = [crawled |-> 0, depth |-> 0]
    /\ link_manager = EmptyLinkManager
    /\ db_save_enabled = FALSE
    /\ unsaved_urls = <<>>
    /\ unsaved_links = <<>>
    /\ active_futures = <<>>
    /\ pc = "none"
    /\ stop_pc = "idle"
    /\ pause_pc = "idle"
    /\ auto_save_alive = FALSE
    /\ db = NoCrawlRow
    /\ next_id = 1
    /\ seed_url = 0
    /\ resumed = "no"
    /\ calls = 0
    /\ fetch = NoFetch
    /\ scan = NoScan
    /\ detected_issues = <<>>
    /\ crawler_instances = <<>>
    /\ sessions = NoSessions
    /\ renderer = NoRenderer
    /\ threads = NoThreads

\* parsed.path and parsed.path not in ('/', ''): every fixture url but the
\* root page has a path.
has_path(url) == url # 1

\* _crawl_worker: with enable_javascript the thread runs _crawl_async_with_js,
\* which first initialises the browser pool; otherwise it enters the HTTP loop.
worker_entry(cfg) == IF cfg.enable_javascript THEN "init" ELSE "loop"

\* if has_path: self.config['max_depth'] = 0
start_config(cfg, url) == IF has_path(url) THEN [cfg EXCEPT !.max_depth = 0] ELSE cfg

\* start_crawl(url, session_id): url is the root page or an inner page;
\* with_session says whether a session_id was passed (persistence on).
\* One crawl per orchestrator is followed: the store below is its crawls row.
StartCrawl(url, with_session) ==
    /\ ~is_running
    /\ seed_url = 0 /\ pc = "none"
    /\ LET cfg == start_config(config, url)
           lm0 == add_url(EmptyLinkManager, url, 0)
           lm1 == IF cfg.discover_sitemaps
                  THEN add_urls(lm0, cfg, SitemapUrls, 0) ELSE lm0
       IN /\ config' = cfg
          /\ db' = IF with_session THEN create_crawl(cfg) ELSE db
          /\ db_save_enabled' = with_session
          /\ auto_save_alive' = with_session
          /\ link_manager' = lm1
    /\ crawl_results' = <<>>
    /\ stats' = [crawled |-> 0, depth |-> 0]
    /\ is_running' = TRUE
    /\ pc' = worker_entry(start_config(config, url))
    /\ seed_url' = url
    /\ UNCHANGED <<is_paused, unsaved_urls, unsaved_links, active_futures, stop_pc,
                   pause_pc, next_id, resumed, calls>>
    /\ UNCHANGED unit_vars

(***************************************************************************)
(* Fetch tasks: _crawl_url_with_requests / _crawl_url_with_javascript.     *)
(***************************************************************************)
NewTask(url, depth, acquired) ==
    [id |-> next_id, url |-> url, depth |-> depth, done |-> FALSE,
     linked_from |-> {}, acquired |-> acquired]

ResultOf(t) == [id |-> t.id, url |-> t.url, depth |-> t.depth, linked_from |-> t.linked_from]

should_extract(cfg, url, depth) ==
    \/ (is_internal(url) /\ depth < cfg.max_depth)
    \/ (cfg.crawl_external /\ depth < cfg.max_depth)

\* One fetch task runs from its fetch to its return.  On the browser path
\* the tasks are coroutines of the worker's event loop: they advance only
\* while the worker awaits (asyncio.wait, asyncio.sleep).
TaskRun(i) ==
    /\ i \in DOMAIN active_futures
    /\ ~active_futures[i].done
    /\ config.enable_javascript => pc \in {"loop", "process"}
    /\ LET t == active_futures[i]
           lm1 == collect_all_links(link_manager, t.url)
           new_links == SubSeq(lm1.all_links, Len(link_manager.all_links) + 1,
                               Len(lm1.all_links))
           lm2 == IF should_extract(config, t.url, t.depth)
                  THEN extract_links(lm1, config, t.url, t.depth + 1) ELSE lm1
           done_t == [t EXCEPT !.done = TRUE,
                               !.linked_from = get_source_pages(lm2, t.url)]
           urls1 == IF db_save_enabled THEN Append(unsaved_urls, ResultOf(done_t))
                    ELSE unsaved_urls
           links1 == IF db_save_enabled THEN unsaved_links \o new_links
                     ELSE unsaved_links
           flush == db_save_enabled /\ Len(urls1) >= batch_save_size
       IN /\ link_manager' = lm2
          /\ active_futures' = [active_futures EXCEPT ![i] = done_t]
          /\ db' = IF flush THEN save_batch_to_db(db, TRUE, urls1, links1, stats) ELSE db
          /\ unsaved_urls' = IF flush THEN <<>> ELSE urls1
          /\ unsaved_links' = IF flush THEN <<>> ELSE links1
    /\ UNCHANGED <<config, is_running, is_paused, crawl_results, stats, db_save_enabled,
                   pc, stop_pc, pause_pc, auto_save_alive, next_id, seed_url, resumed,
                   calls>>
    /\ UNCHANGED unit_vars

(***************************************************************************)
(* The crawl worker, HTTP path: _crawl_worker.                             *)
(***************************************************************************)
DoneTasks == SelectSeq(active_futures, LAMBDA t : t.done)
LiveTasks == SelectSeq(active_futures, LAMBDA t : ~t.done)

\* with self.results_lock: append, crawled += 1, depth = max(...), for each
\* completed task in turn.
AppendResults(results, tasks) == results \o [i \in 1..Len(tasks) |-> ResultOf(tasks[i])]

BumpStats(st, tasks) ==
    [crawled |-> st.crawled + Len(tasks),
     depth |-> SetMax({st.depth} \cup {tasks[i].depth : i \in DOMAIN tasks})]

\* while self.is_running: ... if self.is_paused: sleep, continue
HttpLoopHead ==
    /\ pc = "loop" /\ ~config.enable_javascript
    /\ is_running => ~is_paused
    /\ pc' = IF is_running THEN "fill" ELSE "drain"
    /\ UNCHANGED <<config, is_running, is_paused, crawl_results, stats, link_manager,
                   db_save_enabled, unsaved_urls, unsaved_links, active_futures, stop_pc,
                   pause_pc, auto_save_alive, db, next_id, seed_url, resumed, calls>>
    /\ UNCHANGED unit_vars

\* A submit loop that skips no entry for its depth; C6 does not hold of it.
never_exceeded(cfg, depth) == FALSE

\* if depth > self.config['max_depth']: continue
depth_exceeded(cfg, depth) == depth > cfg.max_depth

\* One iteration of the submit loop.
HttpFill ==
    /\ pc = "fill" /\ ~config.enable_javascript
    /\ IF /\ Len(active_futures) < config.concurrency
          /\ stats.crawled < config.max_urls
          /\ link_manager.discovered_urls # <<>>
       THEN LET url_info == Head(link_manager.discovered_urls)
            IN /\ link_manager' = [link_manager EXCEPT !.discovered_urls = Tail(@)]
               /\ IF depth_exceeded(config, url_info[2])
                  THEN UNCHANGED <<active_futures, next_id>>
                  ELSE /\ active_futures' =
                            Append(active_futures, NewTask(url_info[1], url_info[2], FALSE))
                       /\ next_id' = next_id + 1
               /\ pc' = "fill"
       ELSE /\ pc' = "process"
            /\ UNCHANGED <<link_manager, active_futures, next_id>>
    /\ UNCHANGED <<config, is_running, is_paused, crawl_results, stats, db_save_enabled,
                   unsaved_urls, unsaved_links, stop_pc, pause_pc, auto_save_alive, db,
                   seed_url, resumed, calls>>
    /\ UNCHANGED unit_vars

\* A worker that never finds its queue drained; C29 does not hold of it.
never_drained(lm, live) == FALSE

\* if link_stats['pending'] == 0 and len(active_futures) == 0: break
drained(lm, live) == lm.discovered_urls = <<>> /\ live = <<>>

\* Process completed tasks, remove them, then the two completion checks.
HttpProcess ==
    /\ pc = "process" /\ ~config.enable_javascript
    /\ crawl_results' = AppendResults(crawl_results, DoneTasks)
    /\ stats' = BumpStats(stats, DoneTasks)
    /\ active_futures' = LiveTasks
    /\ pc' = IF stats'.crawled >= config.max_urls THEN "drain"
             ELSE IF drained(link_manager, LiveTasks) THEN "drain"
             ELSE "loop"
    /\ UNCHANGED <<config, is_running, is_paused, link_manager, db_save_enabled,
                   unsaved_urls, unsaved_links, stop_pc, pause_pc, auto_save_alive, db,
                   next_id, seed_url, resumed, calls>>
    /\ UNCHANGED unit_vars

\* _update_all_linked_from: result['linked_from'] = sources when non-empty.
update_linked_from(lm, r) ==
    IF get_source_pages(lm, r.url) # {}
    THEN [r EXCEPT !.linked_from = get_source_pages(lm, r.url)] ELSE r

update_all_linked_from(lm, results) ==
    [i \in DOMAIN results |-> update_linked_from(lm, results[i])]

\* The dicts queued in unsaved_urls are the dicts of crawl_results: the
\* update above is seen through both lists.
update_aliased(lm, results, unsaved) ==
    [i \in DOMAIN unsaved |->
        IF \E j \in DOMAIN results : results[j].id = unsaved[i].id
        THEN update_linked_from(lm, unsaved[i]) ELSE unsaved[i]]

\* The end of the worker: linked_from update, final save, status completed,
\* is_running = False.
Finalise ==
    /\ crawl_results' = update_all_linked_from(link_manager, crawl_results)
    /\ \E written \in write_outcomes(calls) :
          /\ db' = IF db_save_enabled
                   THEN set_crawl_status(
                            flush_batch(db,
                                update_aliased(link_manager, crawl_results, unsaved_urls),
                                unsaved_links, stats, written),
                            "completed")
                   ELSE db
          /\ calls' = IF written THEN calls ELSE calls + 1
    /\ unsaved_urls' = IF db_save_enabled THEN <<>> ELSE unsaved_urls
    /\ unsaved_links' = IF db_save_enabled THEN <<>> ELSE unsaved_links
    /\ is_running' = FALSE
    /\ active_futures' = <<>>
    /\ pc' = IF pc = "init_failed" THEN "failed" ELSE "done"
    /\ UNCHANGED <<config, is_paused, stats, link_manager, db_save_enabled, stop_pc,
                   pause_pc, auto_save_alive, next_id, seed_url, resumed>>
    /\ UNCHANGED unit_vars

\* Leaving the ThreadPoolExecutor block waits for every submitted task;
\* their results are not read.
HttpFinalise ==
    /\ pc = "drain" /\ ~config.enable_javascript
    /\ LiveTasks = <<>>
    /\ Finalise

(***************************************************************************)
(* The crawl worker, browser path: _crawl_async_with_js.                   *)
(***************************************************************************)
\* await self.js_renderer.initialize(): the pool starts, or initialize
\* cleans up and raises and control passes to the finally block.
JsInit ==
    /\ pc = "init" /\ config.enable_javascript
    /\ \E started \in BOOLEAN : pc' = IF started THEN "loop" ELSE "init_failed"
    /\ UNCHANGED <<config, is_running, is_paused, crawl_results, stats, link_manager,
                   db_save_enabled, unsaved_urls, unsaved_links, active_futures, stop_pc,
                   pause_pc, auto_save_alive, db, next_id, seed_url, resumed, calls>>
    /\ UNCHANGED unit_vars

\* while self.is_running and self.stats['crawled'] < self.config['max_urls']
JsLoopHead ==
    /\ pc = "loop" /\ config.enable_javascript
    /\ (is_running /\ stats.crawled < config.max_urls) => ~is_paused
    /\ pc' = IF is_running /\ stats.crawled < config.max_urls THEN "fill" ELSE "drain"
    /\ UNCHANGED <<config, is_running, is_paused, crawl_results, stats, link_manager,
                   db_save_enabled, unsaved_urls, unsaved_links, active_futures, stop_pc,
                   pause_pc, auto_save_alive, db, next_id, seed_url, resumed, calls>>
    /\ UNCHANGED unit_vars

\* One iteration of the submit loop; rate_limiter.acquire() when delay > 0.
JsFill ==
    /\ pc = "fill" /\ config.enable_javascript
    /\ IF /\ Len(active_futures) < config.js_max_concurrent_pages
          /\ link_manager.discovered_urls # <<>>
       THEN LET url_info == Head(link_manager.discovered_urls)
            IN /\ link_manager' = [link_manager EXCEPT !.discovered_urls = Tail(@)]
               /\ IF url_info[2] <= config.max_depth
                  THEN /\ active_futures' =
                            Append(active_futures,
                                   NewTask(url_info[1], url_info[2], config.delay > 0))
                       /\ next_id' = next_id + 1
                  ELSE UNCHANGED <<active_futures, next_id>>
               /\ pc' = "fill"
       ELSE /\ pc' = "process"
            /\ UNCHANGED <<link_manager, active_futures, next_id>>
    /\ UNCHANGED <<config, is_running, is_paused, crawl_results, stats, db_save_enabled,
                   unsaved_urls, unsaved_links, stop_pc, pause_pc, auto_save_alive, db,
                   seed_url, resumed, calls>>
    /\ UNCHANGED unit_vars

\* After asyncio.wait: process the done tasks, then the drain check.
JsProcess ==
    /\ pc = "process" /\ config.enable_javascript
    /\ crawl_results' = AppendResults(crawl_results, DoneTasks)
    /\ stats' = BumpStats(stats, DoneTasks)
    /\ active_futures' = LiveTasks
    /\ pc' = IF drained(link_manager, LiveTasks) THEN "drain"
             ELSE "loop"
    /\ UNCHANGED <<config, is_running, is_paused, link_manager, db_save_enabled,
                   unsaved_urls, unsaved_links, stop_pc, pause_pc, auto_save_alive, db,
                   next_id, seed_url, resumed, calls>>
    /\ UNCHANGED unit_vars

\* The finally block; tasks still pending are cancelled with the event loop.
\* After a failed initialize the exception then ends the thread ("failed").
JsFinalise ==
    /\ pc \in {"drain", "init_failed"} /\ config.enable_javascript
    /\ Finalise

(***************************************************************************)
(* The API calls.                                                          *)
(***************************************************************************)
\* stop_crawl up to crawl_thread.join(timeout=5).  Before any start_crawl the
\* call changes nothing (both flags are already False, no crawl_id is set).
StopCrawlBegin ==
    /\ calls < MaxCalls
    /\ calls' = calls + 1
    /\ stop_pc = "idle" /\ seed_url # 0
    /\ is_running' = FALSE
    /\ is_paused' = FALSE
    /\ stop_pc' = "join"
    /\ UNCHANGED <<config, crawl_results, stats, link_manager, db_save_enabled,
                   unsaved_urls, unsaved_links, active_futures, pc, pause_pc,
                   auto_save_alive, db, next_id, seed_url, resumed>>
    /\ UNCHANGED unit_vars

\* stop_crawl after the join returned or timed out: final save, status.
StopCrawlEnd ==
    /\ stop_pc = "join"
    /\ \E written \in write_outcomes(calls) :
          /\ db' = IF db_save_enabled
                   THEN set_crawl_status(
                            flush_batch(db, unsaved_urls, unsaved_links, stats, written),
                            "stopped")
                   ELSE db
          /\ calls' = IF written THEN calls ELSE calls + 1
    /\ unsaved_urls' = IF db_save_enabled THEN <<>> ELSE unsaved_urls
    /\ unsaved_links' = IF db_save_enabled THEN <<>> ELSE unsaved_links
    /\ stop_pc' = "idle"
    /\ UNCHANGED <<config, is_running, is_paused, crawl_results, stats, link_manager,
                   db_save_enabled, active_futures, pc, pause_pc, auto_save_alive,
                   next_id, seed_url, resumed>>
    /\ UNCHANGED unit_vars

\* pause_crawl: the is_running check and is_paused = True.
PauseCrawlBegin ==
    /\ calls < MaxCalls
    /\ calls' = calls + 1
    /\ pause_pc = "idle"
    /\ is_running
    /\ is_paused' = TRUE
    /\ pause_pc' = "save"
    /\ UNCHANGED <<config, is_running, crawl_results, stats, link_manager,
                   db_save_enabled, unsaved_urls, unsaved_links, active_futures, pc,
                   stop_pc, auto_save_alive, db, next_id, seed_url, resumed>>
    /\ UNCHANGED unit_vars

\* pause_crawl: flush, checkpoint, status paused.
PauseCrawlSave ==
    /\ pause_pc = "save"
    /\ \E written \in write_outcomes(calls) :
          /\ db' = IF db_save_enabled
                   THEN set_crawl_status(
                            save_queue_checkpoint(
                                flush_batch(db, unsaved_urls, unsaved_links, stats, written),
                                TRUE, link_manager),
                            "paused")
                   ELSE db
          /\ calls' = IF written THEN calls ELSE calls + 1
    /\ unsaved_urls' = IF db_save_enabled THEN <<>> ELSE unsaved_urls
    /\ unsaved_links' = IF db_save_enabled THEN <<>> ELSE unsaved_links
    /\ pause_pc' = "idle"
    /\ UNCHANGED <<config, is_running, is_paused, crawl_results, stats, link_manager,
                   db_save_enabled, active_futures, pc, stop_pc, auto_save_alive,
                   next_id, seed_url, resumed>>
    /\ UNCHANGED unit_vars

\* resume_crawl
ResumeCrawl ==
    /\ calls < MaxCalls
    /\ calls' = calls + 1
    /\ is_running
    /\ is_paused
    /\ is_paused' = FALSE
    /\ db' = IF db_save_enabled THEN set_crawl_status(db, "running") ELSE db
    /\ UNCHANGED <<config, is_running, crawl_results, stats, link_manager,
                   db_save_enabled, unsaved_urls, unsaved_links, active_futures, pc,
                   stop_pc, pause_pc, auto_save_alive, next_id, seed_url, resumed>>
    /\ UNCHANGED unit_vars

\* auto_save_worker: a periodic _save_batch_to_db and _save_queue_checkpoint.
AutoSave ==
    /\ auto_save_alive
    /\ is_running
    /\ calls < MaxCalls
    /\ \E written \in write_outcomes(calls + 1) :
          /\ db' = IF db_save_enabled
                   THEN save_queue_checkpoint(
                            flush_batch(db, unsaved_urls, unsaved_links, stats, written),
                            TRUE, link_manager)
                   ELSE db
          /\ calls' = IF written THEN calls + 1 ELSE calls + 2
    /\ unsaved_urls' = IF db_save_enabled THEN <<>> ELSE unsaved_urls
    /\ unsaved_links' = IF db_save_enabled THEN <<>> ELSE unsaved_links
    /\ UNCHANGED <<config, is_running, is_paused, crawl_results, stats, link_manager,
                   db_save_enabled, active_futures, pc, stop_pc, pause_pc,
                   auto_save_alive, next_id, seed_url, resumed>>
    /\ UNCHANGED unit_vars

(***************************************************************************)
(* Process termination and resume_from_database.                           *)
(***************************************************************************)
\* The process ends; a new process constructs a fresh WebCrawler.  The
\* store keeps its rows.
Crash ==
    /\ db.exists
    /\ calls < MaxCalls
    /\ config' = DefaultConfig
    /\ is_running' = FALSE
    /\ is_paused' = FALSE
    /\ crawl_results' = <<>>
    /\ stats' = [crawled |-> 0, depth |-> 0]
    /\ link_manager' = EmptyLinkManager
    /\ db_save_enabled' = FALSE
    /\ unsaved_urls' = <<>>
    /\ unsaved_links' = <<>>
    /\ active_futures' = <<>>
    /\ pc' = "none"
    /\ stop_pc' = "idle"
    /\ pause_pc' = "idle"
    /\ auto_save_alive' = FALSE
    /\ calls' = calls + 1
    /\ UNCHANGED <<db, next_id, seed_url, resumed>>
    /\ UNCHANGED unit_vars

Urls_of(results) == {results[i].url : i \in DOMAIN results}

\* The rebuild loop of resume_from_database over the loaded links.
RECURSIVE rebuild_queue(_, _, _)
rebuild_queue(lm, links, crawled_urls) ==
    IF links = <<>> THEN lm
    ELSE LET link == Head(links)
         IN rebuild_queue(
                IF link.target_url \notin crawled_urls /\ link.is_internal
                THEN add_url(lm, link.target_url, RebuildDepth) ELSE lm,
                Tail(links), crawled_urls)

\* The link manager resume_from_database builds from the store.
restored_link_manager(d) ==
    LET lm0 == [EmptyLinkManager EXCEPT !.all_discovered_urls = Urls_of(d.urls),
                                        !.all_links = d.links]
        cp == d.resume_checkpoint
        lm1 == IF cp.present
               THEN [lm0 EXCEPT !.discovered_urls = cp.discovered_urls,
                                !.visited_urls = cp.visited_urls]
               ELSE lm0
    IN IF lm1.discovered_urls = <<>>
       THEN rebuild_queue(lm1, d.links, Urls_of(d.urls))
       ELSE lm1

\* A resume that refuses only a running orchestrator and a missing crawl;
\* C23 does not hold of it.
refuses_any_status(running, d) == running \/ ~d.exists

\* resume_from_database returns False before it touches anything: a crawl
\* is in progress, or get_resume_data finds no crawl, or one whose status is
\* not paused, failed or running.
resume_refused(running, d) ==
    \/ running
    \/ ~d.exists
    \/ d.status \notin {"paused", "failed", "running"}

\* resume_from_database(crawl_id) on an orchestrator whose worker thread is
\* not running.
ResumeFromDatabase ==
    /\ ~resume_refused(is_running, db)
    /\ pc \in {"none", "done", "failed"}
    /\ config' = db.config_snapshot
    /\ db_save_enabled' = TRUE
    /\ crawl_results' = db.urls
    /\ link_manager' = restored_link_manager(db)
    /\ stats' = [crawled |-> Len(db.urls), depth |-> db.max_depth_reached]
    /\ db' = set_crawl_status(db, "running")
    /\ auto_save_alive' = TRUE
    /\ is_running' = TRUE
    /\ pc' = worker_entry(db.config_snapshot)
    /\ resumed' = db.status
    /\ UNCHANGED <<is_paused, unsaved_urls, unsaved_links, active_futures, stop_pc,
                   pause_pc, next_id, seed_url, calls>>
    /\ UNCHANGED unit_vars

(***************************************************************************)
(* The specification.                                                      *)
(***************************************************************************)
Next ==
    \/ \E url \in {1, 2}, with_session \in BOOLEAN : StartCrawl(url, with_session)
    \/ \E i \in 1..MaxWorkers : TaskRun(i)
    \/ HttpLoopHead
    \/ HttpFill
    \/ HttpProcess
    \/ HttpFinalise
    \/ JsInit
    \/ JsLoopHead
    \/ JsFill
    \/ JsProcess
    \/ JsFinalise
    \/ StopCrawlBegin
    \/ StopCrawlEnd
    \/ PauseCrawlBegin
    \/ PauseCrawlSave
    \/ ResumeCrawl
    \/ AutoSave
    \/ Crash
    \/ ResumeFromDatabase

Spec == Init /\ [][Next]_vars

(***************************************************************************)
(* get_status: the status string it returns.                               *)
(***************************************************************************)
get_status ==
    IF ~is_running /\ stats.crawled = 0 THEN "idle"
    ELSE IF ~is_running /\ stats.crawled > 0 THEN "completed"
    ELSE "running"

(***************************************************************************)
(* The record set of an uninterrupted crawl of the fixture whose budget    *)
(* does not bind: the seed and the admitted sitemap urls at depth 0, then  *)
(* the admitted link targets level by level down to max_depth.             *)
(***************************************************************************)
RECURSIVE Closure(_, _, _, _)
Closure(cfg, seen, frontier, depth) ==
    IF frontier = {} \/ depth >= cfg.max_depth THEN seen
    ELSE LET new == {t \in Urls : /\ should_crawl_url(cfg, t)
                                  /\ \E s \in frontier :
                                        is_internal(s) /\ t \in Range(Anchors(s))} \ seen
         IN Closure(cfg, seen \cup new, new, depth + 1)

Uninterrupted(cfg, seed) ==
    LET roots == {seed} \cup
                 (IF cfg.discover_sitemaps
                  THEN {u \in Range(SitemapUrls) : should_crawl_url(cfg, u)} ELSE {})
    IN Closure(cfg, roots, roots, 0)

\* The crawl has run to its end with nobody interfering after the last
\* (re)start: the worker finalised with the queue drained and no stop.
Drained == pc = "done" /\ link_manager.discovered_urls = <<>>

\* A crawl that is never paused, stopped, terminated or restored and whose
\* budget does not bind ends with the record set Uninterrupted.
UninterruptedResult ==
    (Drained /\ resumed = "no" /\ calls = 0 /\ config.max_urls = DefaultMaxUrls)
        => Urls_of(crawl_results) = Uninterrupted(config, seed_url)

(***************************************************************************)
(* Claims.                                                                 *)
(***************************************************************************)

\* C1: in every reachable state, on either fetch path, stats.crawled is at
\* most config.max_urls and results holds at most max_urls records.
C1_Budget ==
    /\ stats.crawled <= config.max_urls
    /\ Len(crawl_results) <= config.max_urls

\* C2: when a crawl has run to its end, fresh or restored from the store, the
\* records of results have pairwise distinct url.
C2_Uniqueness ==
    Drained => \A i, j \in DOMAIN crawl_results :
                   i # j => crawl_results[i].url # crawl_results[j].url

\* C3: a crawl that was paused, terminated, restored with
\* resume_from_database and run to its end has the record set of the same
\* crawl run uninterrupted.
C3_ResumeEquivalence ==
    (Drained /\ resumed = "paused" /\ db.status = "completed"
             /\ config.max_urls = DefaultMaxUrls)
        => /\ Urls_of(crawl_results) = Uninterrupted(config, seed_url)
           /\ Urls_of(db.urls) = Uninterrupted(config, seed_url)

\* C4: once the stored status is completed, stopped or failed, no step of
\* stop_crawl, pause_crawl, resume_from_database or the worker changes it.
C4_TerminalIsFinal ==
    [][db.status \in Terminal => db'.status = db.status]_vars

\* C5: get_status returns paused while the crawl is paused and stopped once
\* stop_crawl has ended the crawl.
C5_StatusIsLifecycle ==
    /\ (is_running /\ is_paused) => get_status = "paused"
    /\ (db_save_enabled /\ db.status = "stopped") => get_status = "stopped"

C7_SinglePage ==
    (Drained /\ has_path(seed_url) /\ resumed = "no" /\ calls = 0)
        => /\ config.max_depth = 0
           /\ Len(crawl_results) = 1
           /\ crawl_results[1].url = seed_url

\* C8: when the crawl has ended, the source_url of every link record of
\* all_links is the url of some record of results.
C8_LinkSourceClosure ==
    pc = "done" =>
        \A i \in DOMAIN link_manager.all_links :
            link_manager.all_links[i].source_url \in Urls_of(crawl_results)

\* C9: on completion, u is in linked_from of record v exactly when a link
\* record with source u, target v.url and is_internal true exists.
C9_LinkedFromSymmetry ==
    (Drained /\ db.status \in {"completed", "none"}) =>
        \A i \in DOMAIN crawl_results : \A u \in Urls :
            u \in crawl_results[i].linked_from
                <=> \E k \in DOMAIN link_manager.all_links :
                       /\ link_manager.all_links[k].source_url = u
                       /\ link_manager.all_links[k].target_url = crawl_results[i].url
                       /\ link_manager.all_links[k].is_internal

\* C10: with delay > 0, every fetch task was started after its own
\* rate_limiter.acquire().
C10_AcquireBeforeFetch ==
    config.delay > 0 =>
        \A i \in DOMAIN active_futures : active_futures[i].acquired

\* pause_crawl has returned and neither resume_crawl nor stop_crawl was
\* called since.
PauseReturned == is_running /\ is_paused /\ pause_pc = "idle"

\* C11: once pause_crawl has returned, no fetch task is in flight, no
\* record waits unflushed, and no step dequeues a URL or starts a fetch
\* until resume_crawl or stop_crawl is called.
C11_PauseQuiesces ==
    [][PauseReturned =>
          /\ LiveTasks = <<>>
          /\ unsaved_urls = <<>>
          /\ PauseReturned' =>
                /\ next_id' = next_id
                /\ Len(link_manager'.discovered_urls) >= Len(link_manager.discovered_urls)]_vars

\* stop_crawl has set the stop flag and the worker thread is still alive.
StopFlagSet == ~is_running /\ pc \notin {"none", "done", "failed"}

\* C12: after the stop flag is set, no step of the worker dequeues a URL or
\* starts a fetch, and a fetch in flight stays in flight until it finishes.
C12_StopIsCooperative ==
    [][(StopFlagSet /\ pc' # "none") =>
          /\ next_id' = next_id
          /\ Len(link_manager'.discovered_urls) >= Len(link_manager.discovered_urls)
          /\ \A i \in DOMAIN active_futures :
                ~active_futures[i].done =>
                    \E j \in DOMAIN active_futures' :
                        active_futures'[j].id = active_futures[i].id]_vars

\* C13: when the browser pool cannot be initialised, the crawl ends with the
\* stored status failed and get_status does not report it completed.
C13_InitFailureFails ==
    (pc = "failed" /\ stop_pc = "idle" /\ pause_pc = "idle" /\ calls = 0)
        => /\ db_save_enabled => db.status = "failed"
           /\ get_status # "completed"

\* C14: no flush drops a row: a url or link row queued in unsaved_urls /
\* unsaved_links before a step is still queued, or is in the store, after it.
C14_NoRowDropped ==
    [][db_save_enabled' =>
          /\ \A i \in DOMAIN unsaved_urls :
                \/ \E j \in DOMAIN unsaved_urls' : unsaved_urls'[j].id = unsaved_urls[i].id
                \/ \E j \in DOMAIN db'.urls : db'.urls[j].id = unsaved_urls[i].id
          /\ LinkKeys(unsaved_links) \subseteq
                 LinkKeys(unsaved_links') \cup LinkKeys(db'.links)]_vars

\* The queue has drained and the worker has left its loop, but has not yet
\* run its finalisation: the duplicate pass and the final flush are to come.
DrainedNotFinalised ==
    /\ pc = "drain"
    /\ link_manager.discovered_urls = <<>>
    /\ LiveTasks = <<>>

\* C19: on queue drain the worker runs the link update, the duplicate pass
\* and the final flush before it marks the crawl completed: until they have
\* run, neither get_status nor the store shows status completed.
C19_CompletedAfterFinalFlush ==
    DrainedNotFinalised =>
        /\ get_status # "completed"
        /\ db_save_enabled => db.status # "completed"

(***************************************************************************)
(* One fetch followed step by step: _crawl_url_with_requests with its HEAD *)
(* size check and its retry loop, under a worker that runs one fetch at a  *)
(* time.  The crawl engine above takes every fetch as one step answered by *)
(* the page; here the server's answers vary.                               *)
(***************************************************************************)
MaxRetries == 2

FetchConfigs ==
    {[DefaultConfig EXCEPT !.retries = r, !.max_file_size = s, !.concurrency = 1,
                           !.discover_sitemaps = FALSE] :
        r \in 0..MaxRetries, s \in {0, DefaultMaxFileSize}}

\* The Content-Length a HEAD answers with; 0 stands for no such header.
ContentLengths == {0, DefaultMaxFileSize, DefaultMaxFileSize + 1}

\* What a GET does: it raises, or it returns a response with this status.
GetAnswers == {"raise", "200", "404", "500"}

status_code_of(answer) ==
    CASE answer = "200" -> 200 [] answer = "404" -> 404 [] answer = "500" -> 500

GetError == "GET raised"
NoResponseError == "'NoneType' object has no attribute 'status_code'"
TooLargeError == "File too large"

\* seo_extractor.create_empty_result(url, depth, status_code, error)
create_empty_result(url, depth, status_code, error) ==
    [id |-> next_id, url |-> url, depth |-> depth, linked_from |-> {},
     status_code |-> status_code, title |-> <<>>, error |-> error]

\* A retry loop that gives up one exception later; C15 does not hold of it.
gives_up_late(attempt, retries) == attempt >= retries + 1

\* if attempt >= retries: raise e
last_attempt(attempt, retries) == attempt >= retries

\* The anchors of a response body: the page's own on a 200, none on an
\* error page.
body_anchors(url, status_code) == IF status_code = 200 THEN Anchors(url) ELSE <<>>

\* fnmatch(path, pattern) over tokens: "*" stands for any run of tokens,
\* every other token for itself.
RECURSIVE fnmatch(_, _)
fnmatch(path, pattern) ==
    IF pattern = <<>> THEN path = <<>>
    ELSE IF Head(pattern) = "*"
    THEN \/ fnmatch(path, Tail(pattern))
         \/ (path # <<>> /\ fnmatch(Tail(path), pattern))
    ELSE /\ path # <<>>
         /\ Head(path) = Head(pattern)
         /\ fnmatch(Tail(path), Tail(pattern))

\* path.startswith(prefix)
startswith(path, prefix) ==
    Len(prefix) <= Len(path) /\ SubSeq(path, 1, Len(prefix)) = prefix

\* An issue detector that excludes no url; C22 does not hold of it.
excludes_nothing(patterns, path) == FALSE

\* _should_exclude: for pattern in self.exclusion_patterns: fnmatch when the
\* pattern has a '*', else path == pattern or path.startswith(pattern)
\* (rstrip('*') leaves a pattern without '*' as it is).
should_exclude(patterns, path) ==
    \E pattern \in patterns :
        IF "*" \in Range(pattern) THEN fnmatch(path, pattern)
        ELSE path = pattern \/ startswith(path, pattern)

\* detect_issues(result) for a result whose url has this path: nothing for
\* an excluded url; of its checks, the title check and the status check.
detect_issues(patterns, path, result) ==
    IF should_exclude(patterns, path) THEN <<>>
    ELSE (IF result.title = <<>>
          THEN <<[url |-> result.url, issue |-> "Missing Title Tag"]>> ELSE <<>>)
         \o (IF result.status_code >= 400 /\ result.status_code < 500
             THEN <<[url |-> result.url, issue |-> "Client Error"]>>
             ELSE IF result.status_code >= 500
             THEN <<[url |-> result.url, issue |-> "Server Error"]>> ELSE <<>>)

FetchInit ==
    /\ config \in FetchConfigs
    /\ db_save_enabled \in BOOLEAN
    /\ is_running = TRUE
    /\ is_paused = FALSE
    /\ crawl_results = <<>>
    /\ stats = [crawled |-> 0, depth |-> 0]
    /\ link_manager = add_url(EmptyLinkManager, 1, 0)
    /\ unsaved_urls = <<>>
    /\ unsaved_links = <<>>
    /\ active_futures = <<>>
    /\ pc = "loop"
    /\ stop_pc = "idle"
    /\ pause_pc = "idle"
    /\ auto_save_alive = db_save_enabled
    /\ db = IF db_save_enabled THEN create_crawl(config) ELSE NoCrawlRow
    /\ next_id = 1
    /\ seed_url = 1
    /\ resumed = "no"
    /\ calls = 0
    /\ fetch = NoFetch
    /\ scan = NoScan
    /\ detected_issues = <<>>
    /\ crawler_instances = <<>>
    /\ sessions = NoSessions
    /\ renderer = NoRenderer
    /\ threads = NoThreads

\* The submit loop taking the next entry: executor.submit(self._crawl_url, ...)
FetchSubmit ==
    /\ pc = "loop" /\ is_running /\ ~is_paused
    /\ fetch.phase = "idle"
    /\ stats.crawled < config.max_urls
    /\ link_manager.discovered_urls # <<>>
    /\ LET url_info == Head(link_manager.discovered_urls)
       IN /\ link_manager' = [link_manager EXCEPT !.discovered_urls = Tail(@)]
          /\ fetch' = IF depth_exceeded(config, url_info[2]) THEN NoFetch
                      ELSE [phase |-> "head", url |-> url_info[1], depth |-> url_info[2],
                            attempt |-> 0, gets |-> 0, raised |-> 0]
    /\ UNCHANGED service_vars
    /\ UNCHANGED <<config, is_running, is_paused, crawl_results, stats, db_save_enabled,
                   unsaved_urls, unsaved_links, active_futures, pc, stop_pc, pause_pc,
                   auto_save_alive, db, next_id, seed_url, resumed, calls, scan,
                   detected_issues>>

\* The HEAD size check: head_raised says the HEAD request raised, which the
\* bare except swallows.
FetchHead(head_raised, content_length) ==
    /\ fetch.phase = "head"
    /\ fetch' = IF /\ config.max_file_size > 0
                   /\ ~head_raised
                   /\ content_length # 0
                   /\ content_length > config.max_file_size
                THEN [phase |-> "returned", url |-> fetch.url, depth |-> fetch.depth,
                      attempt |-> 0, gets |-> 0, raised |-> 0,
                      result |-> create_empty_result(fetch.url, fetch.depth, 0,
                                                     TooLargeError)]
                ELSE [fetch EXCEPT !.phase = "get"]
    /\ UNCHANGED service_vars
    /\ UNCHANGED <<config, is_running, is_paused, crawl_results, stats, link_manager,
                   db_save_enabled, unsaved_urls, unsaved_links, active_futures, pc,
                   stop_pc, pause_pc, auto_save_alive, db, next_id, seed_url, resumed,
                   calls, scan, detected_issues>>

\* One iteration of for attempt in range(retries + 1), and on a response the
\* rest of the function: the result dict, the link collection, linked_from
\* and the append to unsaved_urls.  An exception anywhere is answered by
\* create_empty_result(url, depth, 0, str(e)).
FetchGet(answer) ==
    /\ fetch.phase = "get"
    /\ fetch.attempt <= config.retries
    /\ IF answer = "raise"
       THEN /\ fetch' =
                 IF last_attempt(fetch.attempt, config.retries)
                 THEN [phase |-> "returned", url |-> fetch.url, depth |-> fetch.depth,
                       attempt |-> fetch.attempt, gets |-> fetch.gets + 1,
                       raised |-> fetch.raised + 1,
                       result |-> create_empty_result(fetch.url, fetch.depth, 0, GetError)]
                 ELSE IF fetch.attempt + 1 > config.retries
                 THEN [phase |-> "returned", url |-> fetch.url, depth |-> fetch.depth,
                       attempt |-> fetch.attempt, gets |-> fetch.gets + 1,
                       raised |-> fetch.raised + 1,
                       result |-> create_empty_result(fetch.url, fetch.depth, 0,
                                                      NoResponseError)]
                 ELSE [fetch EXCEPT !.attempt = @ + 1, !.gets = @ + 1, !.raised = @ + 1]
            /\ UNCHANGED <<link_manager, unsaved_urls, unsaved_links>>
       ELSE LET code == status_code_of(answer)
                anchors == body_anchors(fetch.url, code)
                lm1 == collect_anchors(link_manager, fetch.url, anchors)
                new_links == SubSeq(lm1.all_links, Len(link_manager.all_links) + 1,
                                    Len(lm1.all_links))
                lm2 == IF should_extract(config, fetch.url, fetch.depth)
                       THEN add_urls(lm1, config, anchors, fetch.depth + 1) ELSE lm1
                result == [id |-> next_id, url |-> fetch.url, depth |-> fetch.depth,
                           linked_from |-> get_source_pages(lm2, fetch.url),
                           status_code |-> code, title |-> <<"page">>, error |-> ""]
            IN /\ link_manager' = lm2
               /\ unsaved_links' = IF db_save_enabled THEN unsaved_links \o new_links
                                   ELSE unsaved_links
               /\ unsaved_urls' = IF db_save_enabled THEN Append(unsaved_urls, result)
                                  ELSE unsaved_urls
               /\ fetch' = [phase |-> "returned", url |-> fetch.url, depth |-> fetch.depth,
                            attempt |-> fetch.attempt, gets |-> fetch.gets + 1,
                            raised |-> fetch.raised, result |-> result]
    /\ UNCHANGED service_vars
    /\ UNCHANGED <<config, is_running, is_paused, crawl_results, stats, db_save_enabled,
                   active_futures, pc, stop_pc, pause_pc, auto_save_alive, db, next_id,
                   seed_url, resumed, calls, scan, detected_issues>>

\* The worker taking the finished future: if result: append, crawled += 1,
\* depth = max(...), detect_issues(result); then the two completion checks.
FetchConsume ==
    /\ pc = "loop"
    /\ fetch.phase = "returned"
    /\ crawl_results' = Append(crawl_results, fetch.result)
    /\ stats' = [crawled |-> stats.crawled + 1,
                 depth |-> SetMax({stats.depth, fetch.result.depth})]
    /\ detected_issues' = detected_issues \o
           detect_issues(config.issue_exclusion_patterns,
                         UrlFacts(fetch.result.url).path, fetch.result)
    /\ next_id' = next_id + 1
    /\ fetch' = NoFetch
    /\ pc' = IF stats'.crawled >= config.max_urls THEN "drain"
             ELSE IF link_manager.discovered_urls = <<>> THEN "drain"
             ELSE "loop"
    /\ UNCHANGED service_vars
    /\ UNCHANGED <<config, is_running, is_paused, link_manager, db_save_enabled,
                   unsaved_urls, unsaved_links, active_futures, stop_pc, pause_pc,
                   auto_save_alive, db, seed_url, resumed, calls, scan>>

FetchNext ==
    \/ FetchSubmit
    \/ \E head_raised \in BOOLEAN, content_length \in ContentLengths :
          FetchHead(head_raised, content_length)
    \/ \E answer \in GetAnswers : FetchGet(answer)
    \/ FetchConsume

FetchSpec == FetchInit /\ [][FetchNext]_vars

\* A fetch all of whose GETs raised has returned, and the worker takes it.
AllRaisedTaken ==
    /\ fetch.phase = "returned"
    /\ fetch.gets > 0 /\ fetch.raised = fetch.gets
    /\ fetch'.phase = "idle"

\* C15: a GET that raises is attempted at most retries + 1 times for one
\* url; when every attempt raised, the worker appends exactly one record for
\* the url, with status_code 0 and the exception's message, counts it as
\* crawled, and the crawl goes on running.
C15_RaisingGetIsRecorded ==
    [][/\ fetch'.phase # "idle" => fetch'.gets <= config.retries + 1
       /\ AllRaisedTaken =>
             /\ fetch.gets = config.retries + 1
             /\ Len(crawl_results') = Len(crawl_results) + 1
             /\ crawl_results'[Len(crawl_results')].url = fetch.url
             /\ crawl_results'[Len(crawl_results')].status_code = 0
             /\ crawl_results'[Len(crawl_results')].error = GetError
             /\ \A i \in DOMAIN crawl_results : crawl_results'[i] = crawl_results[i]
             /\ stats'.crawled = stats.crawled + 1
             /\ is_running']_vars

\* An exhausted fetch was recorded after retries, and a later url was
\* crawled after it.
C15_Witness ==
    /\ config.retries = MaxRetries
    /\ \E i, j \in DOMAIN crawl_results :
          /\ i < j
          /\ crawl_results[i].status_code = 0
          /\ crawl_results[i].error = GetError
          /\ crawl_results[j].status_code = 200

\* The worker takes a returned fetch.
FetchTaken == fetch.phase = "returned" /\ fetch'.phase = "idle"

\* C16: a 5xx answer is retried until retries + 1 GETs were made before it
\* is recorded, and a 4xx answer is recorded after a single GET, with its
\* status code.
C16_ServerErrorsRetried ==
    [][FetchTaken =>
         /\ fetch.result.status_code >= 500 => fetch.gets = config.retries + 1
         /\ (fetch.result.status_code = 404 /\ fetch.raised = 0) =>
               /\ fetch.gets = 1
               /\ crawl_results'[Len(crawl_results')].status_code = 404]_vars

\* C17: a url rejected by policy leaves no trace: a url robots.txt
\* disallows is never fetched while respect_robots is on, and a url whose
\* Content-Length is above max_file_size yields no record, no issue and no
\* increment of crawled.
C17_RejectedLeavesNoTrace ==
    [][/\ (config.respect_robots /\ fetch'.phase # "idle")
             => fetch'.url \notin RobotsDisallowed
       /\ (fetch.phase = "returned" /\ fetch.result.error = TooLargeError) =>
             /\ crawl_results' = crawl_results
             /\ detected_issues' = detected_issues
             /\ stats'.crawled = stats.crawled]_vars

(***************************************************************************)
(* The crawl filter followed on its own: _discover_and_add_sitemap_urls    *)
(* hands each url of a sitemap to _should_crawl_url and adds the ones it   *)
(* accepts.  The urls and the filter settings vary.                        *)
(***************************************************************************)
\* /, /docs, /docs.html, /docs.pdf, /docs.xyz and /v1.2/docs
SamplePaths ==
    {<<"/">>, <<"/", "docs">>, <<"/", "docs", ".", "html">>, <<"/", "docs", ".", "pdf">>,
     <<"/", "docs", ".", "xyz">>, <<"/", "v1", ".", "2", "/", "docs">>}

SampleUrls ==
    {[internal |-> i, robots_ok |-> r, path |-> p] :
        i \in BOOLEAN, r \in BOOLEAN, p \in SamplePaths}

PatternLists == SUBSET {"", "docs", "v1"}

FilterConfigs ==
    {[DefaultConfig EXCEPT !.crawl_external = x, !.respect_robots = r,
                           !.include_extensions = ie, !.exclude_extensions = ee,
                           !.include_patterns = ip, !.exclude_patterns = ep] :
        x \in BOOLEAN, r \in BOOLEAN,
        ie \in {{}, DefaultIncludeExtensions}, ee \in {{}, DefaultExcludeExtensions},
        ip \in PatternLists, ep \in PatternLists}

\* start_crawl up to the sitemap discovery: the seed is queued and the
\* sitemap's urls are waiting for the filter.
ScanInit ==
    /\ config \in FilterConfigs
    /\ \E u \in SampleUrls : scan = [pending |-> <<u>>, filtered |-> {}]
    /\ is_running = FALSE
    /\ is_paused = FALSE
    /\ crawl_results = <<>>
    /\ stats = [crawled |-> 0, depth |-> 0]
    /\ link_manager = add_url(EmptyLinkManager, UrlFacts(1), 0)
    /\ db_save_enabled = FALSE
    /\ unsaved_urls = <<>>
    /\ unsaved_links = <<>>
    /\ active_futures = <<>>
    /\ pc = "none"
    /\ stop_pc = "idle"
    /\ pause_pc = "idle"
    /\ auto_save_alive = FALSE
    /\ db = NoCrawlRow
    /\ next_id = 1
    /\ seed_url = 1
    /\ resumed = "no"
    /\ calls = 0
    /\ fetch = NoFetch
    /\ detected_issues = <<>>
    /\ crawler_instances = <<>>
    /\ sessions = NoSessions
    /\ renderer = NoRenderer
    /\ threads = NoThreads

\* for url in sitemap_urls: if self._should_crawl_url(url): add_url(url, 0)
\* else: filtered_count += 1
ScanStep ==
    /\ scan.pending # <<>>
    /\ LET u == Head(scan.pending)
       IN IF should_crawl(config, u)
          THEN /\ link_manager' = add_url(link_manager, u, 0)
               /\ scan' = [scan EXCEPT !.pending = Tail(@)]
          ELSE /\ scan' = [pending |-> Tail(scan.pending),
                           filtered |-> scan.filtered \cup {u}]
               /\ UNCHANGED link_manager
    /\ UNCHANGED service_vars
    /\ UNCHANGED <<config, is_running, is_paused, crawl_results, stats, db_save_enabled,
                   unsaved_urls, unsaved_links, active_futures, pc, stop_pc, pause_pc,
                   auto_save_alive, db, next_id, seed_url, resumed, calls, fetch,
                   detected_issues>>

ScanNext == ScanStep

ScanSpec == ScanInit /\ [][ScanNext]_vars

\* The extension of a url, if any: what follows the last "." of its last
\* path segment.
HasExtension(path) ==
    /\ Dots(path) # {}
    /\ \A i \in DOMAIN path : i > SetMax(Dots(path)) => path[i] # "/"

\* The rule of C18, read off a url and the settings.
CrawlRule(cfg, u) ==
    /\ u.internal \/ cfg.crawl_external
    /\ u.robots_ok \/ ~cfg.respect_robots
    /\ HasExtension(u.path) =>
          /\ ~in_extensions(split_extension(u.path), cfg.exclude_extensions)
          /\ cfg.include_extensions # {}
                => in_extensions(split_extension(u.path), cfg.include_extensions)
    /\ ~\E pattern \in cfg.exclude_patterns : pattern_matches(pattern, u.path)
    /\ cfg.include_patterns # {}
          => \E pattern \in cfg.include_patterns : pattern_matches(pattern, u.path)

\* C18: _should_crawl_url accepts a url exactly when it is internal or
\* crawl_external is on, robots.txt allows it or respect_robots is off, its
\* extension, if any, is not excluded and is included when include_extensions
\* is non-empty, no exclude pattern matches it, and some include pattern
\* matches it when include_patterns is non-empty.
C18_FilterRule ==
    [][scan.pending # <<>> =>
         (Head(scan.pending) \notin scan'.filtered
             <=> CrawlRule(config, Head(scan.pending)))]_vars

(***************************************************************************)
(* The duplicate pass followed on its own: detect_duplication_issues over  *)
(* the records of a drained crawl.  The records and the exclusion patterns *)
(* vary.                                                                   *)
(***************************************************************************)
MaxRecords == 3

\* /, /docs and /docs/a
DupPaths == {<<"/">>, <<"/", "docs">>, <<"/", "docs", "/", "a">>}

\* Page contents: a page; one that differs from it in the h1 and has half
\* the words; one with another title and nothing else; one without an h1;
\* one that has no character and no count in common with the others.
DupContents ==
    {[title |-> <<"a", "b">>, meta_description |-> <<"a", "b">>,
      h1 |-> <<"a", "b">>, word_count |-> 100],
     [title |-> <<"a", "b">>, meta_description |-> <<"a", "b">>,
      h1 |-> <<"a", "c">>, word_count |-> 50],
     [title |-> <<"a", "c">>, meta_description |-> <<>>,
      h1 |-> <<>>, word_count |-> 0],
     [title |-> <<"a", "b">>, meta_description |-> <<"a", "b">>,
      h1 |-> <<>>, word_count |-> 100],
     [title |-> <<"x", "y">>, meta_description |-> <<"x", "y">>,
      h1 |-> <<"x", "y">>, word_count |-> 10]}

DupRecords ==
    {[url |-> u, title |-> c.title, meta_description |-> c.meta_description,
      h1 |-> c.h1, word_count |-> c.word_count] : u \in DupPaths, c \in DupContents}

RecordLists == UNION {[1..n -> DupRecords] : n \in 0..MaxRecords}

DupConfigs ==
    {[DefaultConfig EXCEPT !.issue_exclusion_patterns = x] :
        x \in {{}, {<<"/", "docs">>}}}

RECURSIVE common_prefix(_, _)
common_prefix(a, b) ==
    IF a = <<>> \/ b = <<>> \/ Head(a) # Head(b) THEN 0
    ELSE 1 + common_prefix(Tail(a), Tail(b))

\* _text_similarity, in percent: SequenceMatcher(None, a, b).ratio() is
\* 2 * M / (len(a) + len(b)) with M the matched characters, which for texts
\* that differ only after a common prefix is the length of that prefix.
text_similarity(a, b) ==
    IF a = <<>> \/ b = <<>> THEN 0
    ELSE (200 * common_prefix(a, b)) \div (Len(a) + Len(b))

\* _calculate_content_similarity, in 1/10000: the weights are 0.35, 0.35,
\* 0.20 and 0.10.
content_similarity(r1, r2) ==
    LET title_sim == IF r1.title # <<>> /\ r2.title # <<>>
                     THEN text_similarity(r1.title, r2.title) ELSE 0
        desc_sim == IF r1.meta_description # <<>> /\ r2.meta_description # <<>>
                    THEN text_similarity(r1.meta_description, r2.meta_description) ELSE 0
        h1_sim == IF r1.h1 # <<>> /\ r2.h1 # <<>>
                  THEN text_similarity(r1.h1, r2.h1) ELSE 0
        word_count_sim ==
            IF r1.word_count # 0 /\ r2.word_count # 0
            THEN (100 * Min(r1.word_count, r2.word_count))
                     \div SetMax({r1.word_count, r2.word_count})
            ELSE 0
    IN title_sim * 35 + desc_sim * 35 + h1_sim * 20 + word_count_sim * 10

\* A pass that flags a pair only above the threshold; C20 does not hold of
\* it.
strictly_above(similarity, threshold) == similarity > threshold

\* if similarity >= similarity_threshold
meets_threshold(similarity, threshold) == similarity >= threshold

DuplicateWarning(url, other) ==
    [url |-> url, type |-> "warning", issue |-> "Duplicate Content Detected",
     other |-> other]

\* The two loops of detect_duplication_issues from position (i, j) on, with
\* the pairs processed and the issues collected so far.
RECURSIVE duplication_scan(_, _, _, _, _, _, _)
duplication_scan(results, patterns, threshold, i, j, processed_pairs, issues) ==
    IF i > Len(results) THEN issues
    ELSE IF should_exclude(patterns, results[i].url) \/ j > Len(results)
    THEN duplication_scan(results, patterns, threshold, i + 1, 1, processed_pairs, issues)
    ELSE IF \/ i >= j
            \/ should_exclude(patterns, results[j].url)
            \/ {results[i].url, results[j].url} \in processed_pairs
    THEN duplication_scan(results, patterns, threshold, i, j + 1, processed_pairs, issues)
    ELSE duplication_scan(results, patterns, threshold, i, j + 1,
             processed_pairs \cup {{results[i].url, results[j].url}},
             IF meets_threshold(content_similarity(results[i], results[j]), threshold)
             THEN issues \o <<DuplicateWarning(results[i].url, results[j].url),
                              DuplicateWarning(results[j].url, results[i].url)>>
             ELSE issues)

\* detect_duplication_issues(all_results, similarity_threshold): the issues
\* it appends to detected_issues.
detect_duplication_issues(results, patterns, threshold) ==
    duplication_scan(results, patterns, threshold, 1, 1, {}, <<>>)

\* The worker has left its loop with these records.
DupInit ==
    /\ config \in DupConfigs
    /\ crawl_results \in RecordLists
    /\ is_running = TRUE
    /\ is_paused = FALSE
    /\ stats = [crawled |-> Len(crawl_results), depth |-> 0]
    /\ link_manager = EmptyLinkManager
    /\ db_save_enabled = FALSE
    /\ unsaved_urls = <<>>
    /\ unsaved_links = <<>>
    /\ active_futures = <<>>
    /\ pc = "drain"
    /\ stop_pc = "idle"
    /\ pause_pc = "idle"
    /\ auto_save_alive = FALSE
    /\ db = NoCrawlRow
    /\ next_id = 1
    /\ seed_url = 1
    /\ resumed = "no"
    /\ calls = 0
    /\ fetch = NoFetch
    /\ scan = NoScan
    /\ detected_issues = <<>>
    /\ crawler_instances = <<>>
    /\ sessions = NoSessions
    /\ renderer = NoRenderer
    /\ threads = NoThreads

\* self.issue_detector.detect_duplication_issues(self.crawl_results,
\* duplication_threshold)
DuplicationPass ==
    /\ pc = "drain"
    /\ detected_issues' = detected_issues \o
           detect_duplication_issues(crawl_results, config.issue_exclusion_patterns,
                                     config.duplication_threshold)
    /\ pc' = "final_save"
    /\ UNCHANGED service_vars
    /\ UNCHANGED <<config, is_running, is_paused, crawl_results, stats, link_manager,
                   db_save_enabled, unsaved_urls, unsaved_links, active_futures, stop_pc,
                   pause_pc, auto_save_alive, db, next_id, seed_url, resumed, calls,
                   fetch, scan>>

DupNext == DuplicationPass

DupSpec == DupInit /\ [][DupNext]_vars

DistinctUrls(results) ==
    \A i, j \in DOMAIN results : results[i].url = results[j].url => i = j

\* The pairs of records, in list order, neither of which is excluded.
IncludedPairs(results, patterns) ==
    {p \in (DOMAIN results) \X (DOMAIN results) :
        /\ p[1] < p[2]
        /\ ~should_exclude(patterns, results[p[1]].url)
        /\ ~should_exclude(patterns, results[p[2]].url)}

SimilarPairs(results, patterns, threshold) ==
    {p \in IncludedPairs(results, patterns) :
        content_similarity(results[p[1]], results[p[2]]) >= threshold}

\* C20: over records with distinct urls the duplicate pass leaves, for every
\* pair of non-excluded records whose similarity is at or above the
\* threshold, exactly two Duplicate Content Detected warnings, one on each
\* url naming the other, and no other issue: none for a pair below the
\* threshold, none for an excluded record, none twice.
C20_DuplicatePairs ==
    (pc = "final_save" /\ DistinctUrls(crawl_results)) =>
        LET similar == SimilarPairs(crawl_results, config.issue_exclusion_patterns,
                                    config.duplication_threshold)
        IN /\ Len(detected_issues) = 2 * Cardinality(similar)
           /\ \A p \in similar :
                 /\ \E k \in DOMAIN detected_issues :
                       detected_issues[k] = DuplicateWarning(crawl_results[p[1]].url,
                                                             crawl_results[p[2]].url)
                 /\ \E k \in DOMAIN detected_issues :
                       detected_issues[k] = DuplicateWarning(crawl_results[p[2]].url,
                                                             crawl_results[p[1]].url)

\* The pass has run over three records with distinct urls: one pair met the
\* threshold exactly and was flagged, another pair fell below it.
C20_Witness ==
    /\ pc = "final_save"
    /\ DistinctUrls(crawl_results)
    /\ config.issue_exclusion_patterns = {}
    /\ Len(crawl_results) = 3
    /\ Len(detected_issues) = 2
    /\ \E p \in IncludedPairs(crawl_results, {}) :
          content_similarity(crawl_results[p[1]], crawl_results[p[2]])
              = config.duplication_threshold

\* Two records agree in the four fields the similarity reads.
SameContent(r1, r2) ==
    /\ r1.title = r2.title
    /\ r1.meta_description = r2.meta_description
    /\ r1.h1 = r2.h1
    /\ r1.word_count = r2.word_count

\* Two texts have no character in common.
NoCommonCharacter(a, b) == Range(a) \cap Range(b) = {}

\* Two records share nothing in any of the four fields.
DisjointContent(r1, r2) ==
    /\ NoCommonCharacter(r1.title, r2.title)
    /\ NoCommonCharacter(r1.meta_description, r2.meta_description)
    /\ NoCommonCharacter(r1.h1, r2.h1)
    /\ r1.word_count # r2.word_count

\* C21: two records with the same title, meta_description, h1 and
\* word_count have similarity 1.0 (10000 in the unit used here) and, once the
\* duplicate pass has run over them, both carry a duplicate warning at the
\* default threshold; two records that share nothing in the four fields have
\* a similarity below the threshold.
C21_SimilarityEnds ==
    \A i, j \in DOMAIN crawl_results :
        i < j =>
            /\ SameContent(crawl_results[i], crawl_results[j]) =>
                  /\ content_similarity(crawl_results[i], crawl_results[j]) = 10000
                  /\ (/\ pc = "final_save"
                      /\ DistinctUrls(crawl_results)
                      /\ config.issue_exclusion_patterns = {}) =>
                        \E k \in DOMAIN detected_issues :
                            detected_issues[k] = DuplicateWarning(crawl_results[i].url,
                                                                  crawl_results[j].url)
            /\ DisjointContent(crawl_results[i], crawl_results[j]) =>
                  content_similarity(crawl_results[i], crawl_results[j])
                      < config.duplication_threshold

(***************************************************************************)
(* The issue detector followed on its own: detect_issues on each record as *)
(* the worker takes it, and the duplicate pass, in any order and number.   *)
(***************************************************************************)
ExclusionLists ==
    {{}, {<<"/", "docs">>}, {<<"/", "docs", "/", "*">>}, {<<"*", "a">>},
     {<<"/", "x">>, <<"/", "*", "/", "a">>}}

IssueConfigs == {[DefaultConfig EXCEPT !.issue_exclusion_patterns = x] : x \in ExclusionLists}

\* The records a fetch can return for these urls: a page, a page that
\* answered 404, and an error record.
IssueRecords ==
    {[url |-> r.url, title |-> r.title, meta_description |-> r.meta_description,
      h1 |-> r.h1, word_count |-> r.word_count, status_code |-> c] :
        r \in {x \in DupRecords : x.h1 = <<"a", "b">>},
        c \in {200, 404}}
    \cup {[url |-> u, title |-> <<>>, meta_description |-> <<>>, h1 |-> <<>>,
           word_count |-> 0, status_code |-> 0] : u \in DupPaths}

IssueInit ==
    /\ config \in IssueConfigs
    /\ crawl_results = <<>>
    /\ is_running = TRUE
    /\ is_paused = FALSE
    /\ stats = [crawled |-> 0, depth |-> 0]
    /\ link_manager = EmptyLinkManager
    /\ db_save_enabled = FALSE
    /\ unsaved_urls = <<>>
    /\ unsaved_links = <<>>
    /\ active_futures = <<>>
    /\ pc = "loop"
    /\ stop_pc = "idle"
    /\ pause_pc = "idle"
    /\ auto_save_alive = FALSE
    /\ db = NoCrawlRow
    /\ next_id = 1
    /\ seed_url = 1
    /\ resumed = "no"
    /\ calls = 0
    /\ fetch = NoFetch
    /\ scan = NoScan
    /\ detected_issues = <<>>
    /\ crawler_instances = <<>>
    /\ sessions = NoSessions
    /\ renderer = NoRenderer
    /\ threads = NoThreads

\* The worker takes a result: append, crawled += 1, detect_issues(result).
IssueConsume(result) ==
    /\ Len(crawl_results) < MaxRecords
    /\ crawl_results' = Append(crawl_results, result)
    /\ stats' = [stats EXCEPT !.crawled = @ + 1]
    /\ detected_issues' = detected_issues \o
           detect_issues(config.issue_exclusion_patterns, result.url, result)
    /\ UNCHANGED service_vars
    /\ UNCHANGED <<config, is_running, is_paused, link_manager, db_save_enabled,
                   unsaved_urls, unsaved_links, active_futures, pc, stop_pc, pause_pc,
                   auto_save_alive, db, next_id, seed_url, resumed, calls, fetch, scan>>

\* detect_duplication_issues(self.crawl_results, duplication_threshold),
\* as the end of every worker run calls it.
IssueDuplicationPass ==
    /\ calls < MaxCalls
    /\ calls' = calls + 1
    /\ detected_issues' = detected_issues \o
           detect_duplication_issues(crawl_results, config.issue_exclusion_patterns,
                                     config.duplication_threshold)
    /\ UNCHANGED service_vars
    /\ UNCHANGED <<config, is_running, is_paused, crawl_results, stats, link_manager,
                   db_save_enabled, unsaved_urls, unsaved_links, active_futures, pc,
                   stop_pc, pause_pc, auto_save_alive, db, next_id, seed_url, resumed,
                   fetch, scan>>

IssueNext ==
    \/ \E result \in IssueRecords : IssueConsume(result)
    \/ IssueDuplicationPass

IssueSpec == IssueInit /\ [][IssueNext]_vars

\* A path matches an exclusion pattern: as a glob when the pattern has a
\* "*", as a prefix otherwise.
MatchesExclusion(path, pattern) ==
    IF \E i \in DOMAIN pattern : pattern[i] = "*"
    THEN fnmatch(path, pattern)
    ELSE startswith(path, pattern)

\* C22: after any sequence of detect_issues and detect_duplication_issues
\* calls, detected_issues holds no issue whose url's path matches an
\* exclusion pattern.
C22_ExcludedHaveNoIssues ==
    \A k \in DOMAIN detected_issues :
        \A pattern \in config.issue_exclusion_patterns :
            ~MatchesExclusion(detected_issues[k].url, pattern)

\* Records of excluded and of included urls were taken and the duplicate
\* pass has run; the included ones carry issues of both kinds.
C22_Witness ==
    /\ calls > 0
    /\ \E i \in DOMAIN crawl_results :
          \E pattern \in config.issue_exclusion_patterns :
              /\ "*" \in Range(pattern)
              /\ MatchesExclusion(crawl_results[i].url, pattern)
    /\ \E k \in DOMAIN detected_issues : detected_issues[k].issue = "Client Error"
    /\ \E k \in DOMAIN detected_issues :
          detected_issues[k].issue = "Duplicate Content Detected"

(***************************************************************************)
(* resume_from_database followed on its own, over orchestrators that are   *)
(* idle, running or paused and over stored crawls of every status.         *)
(***************************************************************************)
StoredRows ==
    {NoCrawlRow} \cup
    {[exists |-> TRUE, status |-> st, config_snapshot |-> c, urls |-> u, links |-> l,
      max_depth_reached |-> 0, resume_checkpoint |-> cp, user_id |-> owner] :
        st \in {"running", "paused", "failed", "completed", "stopped"},
        c \in {DefaultConfig, [DefaultConfig EXCEPT !.max_depth = 1]},
        u \in {<<>>, <<[id |-> 1, url |-> 1, depth |-> 0, linked_from |-> {}]>>},
        l \in {<<>>, <<LinkRecord(1, 2)>>},
        owner \in {0, 1},
        cp \in {NoCheckpoint,
                [present |-> TRUE, discovered_urls |-> <<<<2, 1>>>>, visited_urls |-> {}]}}

\* The orchestrator before the call: never started; started without
\* persistence and running, or paused; or run to its end.
ResumeInit ==
    /\ db \in StoredRows
    /\ config = [DefaultConfig EXCEPT !.discover_sitemaps = FALSE]
    /\ \E phase \in {"fresh", "running", "paused", "ended"} :
          /\ is_running = (phase \in {"running", "paused"})
          /\ is_paused = (phase = "paused")
          /\ pc = CASE phase = "fresh" -> "none"
                    [] phase = "ended" -> "done"
                    [] OTHER -> "loop"
          /\ seed_url = IF phase = "fresh" THEN 0 ELSE 1
          /\ crawl_results = IF phase = "ended"
                             THEN <<[id |-> 1, url |-> 1, depth |-> 0, linked_from |-> {}]>>
                             ELSE <<>>
          /\ stats = [crawled |-> Len(crawl_results), depth |-> 0]
          /\ link_manager = CASE phase = "fresh" -> EmptyLinkManager
                              [] phase = "ended" ->
                                   [add_url(EmptyLinkManager, 1, 0)
                                       EXCEPT !.discovered_urls = <<>>]
                              [] OTHER -> add_url(EmptyLinkManager, 1, 0)
          /\ next_id = IF phase = "ended" THEN 2 ELSE 1
    /\ db_save_enabled = FALSE
    /\ unsaved_urls = <<>>
    /\ unsaved_links = <<>>
    /\ active_futures = <<>>
    /\ stop_pc = "idle"
    /\ pause_pc = "idle"
    /\ auto_save_alive = FALSE
    /\ resumed = "no"
    /\ calls = 0
    /\ fetch = NoFetch
    /\ scan = NoScan
    /\ detected_issues = <<>>
    /\ crawler_instances = <<>>
    /\ sessions = NoSessions
    /\ renderer = NoRenderer
    /\ threads = NoThreads

\* resume_from_database returning (False, message) from one of its first
\* three tests.
ResumeRefused ==
    /\ resume_refused(is_running, db)
    /\ resumed' = "refused"
    /\ UNCHANGED <<config, is_running, is_paused, crawl_results, stats, link_manager,
                   db_save_enabled, unsaved_urls, unsaved_links, active_futures, pc,
                   stop_pc, pause_pc, auto_save_alive, db, next_id, seed_url, calls>>
    /\ UNCHANGED unit_vars

ResumeNext ==
    \/ ResumeFromDatabase
    \/ ResumeRefused

ResumeSpec == ResumeInit /\ [][ResumeNext]_vars

\* The crawl named is missing, or its stored status is not one a resume
\* accepts, or a crawl is already running.
NotResumable ==
    \/ ~db.exists
    \/ db.status \notin {"paused", "failed", "running"}
    \/ is_running

\* C23: resume_from_database for a crawl that is missing, or whose stored
\* status is not paused, failed or running, or while a crawl is running,
\* returns ok = false and leaves is_running, the configuration, the results,
\* the link manager and the stored crawl as they were.
C23_RefusedResumeChangesNothing ==
    [][NotResumable =>
         /\ resumed' = "refused"
         /\ UNCHANGED <<is_running, is_paused, config, crawl_results, stats,
                        link_manager, db, db_save_enabled, pc>>]_vars

\* A resume of a completed crawl, asked of an idle orchestrator, was refused.
C23_Witness ==
    /\ resumed = "refused"
    /\ ~is_running
    /\ db.exists /\ db.status = "completed"

(***************************************************************************)
(* resume_from_database(crawl_id, user_id) with its caller: user_id 0      *)
(* stands for a call that passes no user_id.                               *)
(***************************************************************************)
CallerIds == {0, 1, 2}

\* if user_id and crawl_data.get('user_id') != user_id: return False, ...
unauthorized(user_id, d) == user_id # 0 /\ d.user_id # user_id

\* The call goes past its four tests and loads the stored crawl.
ResumeAs(user_id) ==
    /\ ~unauthorized(user_id, db)
    /\ ResumeFromDatabase

\* The call returns (False, message) from one of its four tests.
ResumeRefusedAs(user_id) ==
    /\ resume_refused(is_running, db) \/ unauthorized(user_id, db)
    /\ resumed' = "refused"
    /\ UNCHANGED <<config, is_running, is_paused, crawl_results, stats, link_manager,
                   db_save_enabled, unsaved_urls, unsaved_links, active_futures, pc,
                   stop_pc, pause_pc, auto_save_alive, db, next_id, seed_url, calls>>
    /\ UNCHANGED unit_vars

OwnerNext ==
    \/ \E user_id \in CallerIds : ResumeAs(user_id)
    \/ \E user_id \in CallerIds : ResumeRefusedAs(user_id)

OwnerSpec == ResumeInit /\ [][OwnerNext]_vars

\* C40: a resume_from_database call whose user_id differs from the stored
\* crawl's user_id, a call that passes no user_id included, returns
\* ok = false and leaves the orchestrator and the stored crawl unchanged.
C40_OnlyOwnerResumes ==
    [][\A user_id \in CallerIds :
          (/\ ResumeAs(user_id) \/ ResumeRefusedAs(user_id)
           /\ db.exists
           /\ db.user_id # user_id)
             => /\ resumed' = "refused"
                /\ UNCHANGED <<is_running, is_paused, config, crawl_results, stats,
                               link_manager, db, db_save_enabled, pc>>]_vars

(***************************************************************************)
(* The session registry of main.py: crawler_instances maps a session_id to *)
(* the session's crawler, its settings manager and the time of its last    *)
(* lookup. Lookups and the body of the sweep run under instances_lock, so  *)
(* each is one step; the sweep reads the clock before it takes the lock.   *)
(* Objects are named by the order of their creation; time is in minutes.   *)
(***************************************************************************)
ClockSteps == {InstanceTimeout \div 2}
LookupKinds == {"crawler", "settings"}

\* crawler_instances[session_id] = {...}: the entry a lookup creates.
new_instance(made, now) ==
    [crawler |-> made + 1, settings |-> made + 1, last_accessed |-> now]

always_new(instances, session_id, made, now) ==
    (session_id :> new_instance(made, now)) @@ instances

\* The locked body shared by get_or_create_crawler and get_session_settings.
lookup(instances, session_id, made, now) ==
    IF session_id \notin DOMAIN instances
    THEN (session_id :> new_instance(made, now)) @@ instances
    ELSE [instances EXCEPT ![session_id].last_accessed = now]

expired_at_timeout(now, instance_data) ==
    now - instance_data.last_accessed >= InstanceTimeout

\* now - instance_data['last_accessed'] > timeout
expired(now, instance_data) ==
    now - instance_data.last_accessed > InstanceTimeout

\* Time passes.
Tick(d) ==
    /\ sessions.clock + d <= MaxClock
    /\ sessions' = [sessions EXCEPT !.clock = @ + d]
    /\ UNCHANGED crawler_instances

\* get_or_create_crawler() / get_session_settings() for one session.
Lookup(session_id, kind) ==
    /\ session_id \in DOMAIN crawler_instances \/ sessions.made < MaxInstances
    /\ crawler_instances' =
           lookup(crawler_instances, session_id, sessions.made, sessions.clock)
    /\ sessions' =
           [sessions EXCEPT
              !.made = IF session_id \in DOMAIN crawler_instances THEN @ ELSE @ + 1,
              !.looked_up = (session_id :> sessions.clock) @@ @,
              !.since[session_id] =
                  @ \cup {<<kind, crawler_instances'[session_id][kind]>>},
              !.handed[session_id] =
                  @ \cup {<<kind, crawler_instances'[session_id][kind]>>}]

\* cleanup_loop wakes and cleanup_old_instances reads the clock.
CleanupNow ==
    /\ sessions.cleanup_pc = "sleep"
    /\ sessions.clock >= sessions.wake_at
    /\ sessions' = [sessions EXCEPT !.cleanup_pc = "sweep", !.now = sessions.clock]
    /\ UNCHANGED crawler_instances

\* The locked body of cleanup_old_instances; the thread sleeps again.
CleanupSweep ==
    /\ sessions.cleanup_pc = "sweep"
    /\ LET sessions_to_remove ==
               {s \in DOMAIN crawler_instances :
                   expired(sessions.now, crawler_instances[s])}
           kept == DOMAIN crawler_instances \ sessions_to_remove
       IN /\ crawler_instances' = [s \in kept |-> crawler_instances[s]]
          /\ sessions' =
                 [sessions EXCEPT
                    !.cleanup_pc = "sleep",
                    !.now = 0,
                    !.wake_at = sessions.clock + SweepEvery,
                    !.stopped = @ \cup {crawler_instances[s].crawler :
                                             s \in sessions_to_remove},
                    !.looked_up = [s \in kept |-> sessions.looked_up[s]],
                    !.since = [s \in SessionIds |->
                                  IF s \in sessions_to_remove THEN {} ELSE @[s]]]

RegistryInit ==
    /\ config = DefaultConfig
    /\ is_running = FALSE
    /\ is_paused = FALSE
    /\ crawl_results = <<>>
    /\ stats = [crawled |-> 0, depth |-> 0]
    /\ link_manager = EmptyLinkManager
    /\ db_save_enabled = FALSE
    /\ unsaved_urls = <<>>
    /\ unsaved_links = <<>>
    /\ active_futures = {}
    /\ pc = "none"
    /\ stop_pc = "idle"
    /\ pause_pc = "idle"
    /\ auto_save_alive = FALSE
    /\ db = NoCrawlRow
    /\ next_id = 1
    /\ seed_url = 0
    /\ resumed = "no"
    /\ calls = 0
    /\ fetch = NoFetch
    /\ scan = NoScan
    /\ detected_issues = <<>>
    /\ crawler_instances = <<>>
    /\ sessions = NoSessions
    /\ renderer = NoRenderer
    /\ threads = NoThreads

crawl_vars == <<config, is_running, is_paused, crawl_results, stats, link_manager,
                db_save_enabled, unsaved_urls, unsaved_links, active_futures, pc,
                stop_pc, pause_pc, auto_save_alive, db, next_id, seed_url,
                resumed, calls, fetch, scan, detected_issues>>

RegistryNext ==
    /\ \/ \E d \in ClockSteps : Tick(d)
       \/ \E s \in SessionIds, kind \in LookupKinds : Lookup(s, kind)
       \/ CleanupNow
       \/ CleanupSweep
    /\ UNCHANGED <<crawl_vars, renderer, threads>>

RegistrySpec == RegistryInit /\ [][RegistryNext]_vars

\* The entries a sweep that read the clock at `now` finds stale.
Stale(now) ==
    {s \in DOMAIN crawler_instances :
        now - crawler_instances[s].last_accessed > InstanceTimeout}

\* C24: a sweep removes exactly the entries last looked up more than one
\* hour before the time the sweep read, every removed entry's crawler has
\* had stop_crawl called, every other entry is left as it was; a lookup sets
\* the entry's last_accessed to the time of the lookup, so no entry looked
\* up within the last hour is removed.
C24_SweepEvictsExactlyStale ==
    [][/\ \A s \in DOMAIN crawler_instances' :
              crawler_instances'[s].last_accessed = sessions'.looked_up[s]
       /\ (sessions.cleanup_pc = "sweep" /\ sessions'.cleanup_pc = "sleep") =>
              /\ DOMAIN crawler_instances' =
                     DOMAIN crawler_instances \ Stale(sessions.now)
              /\ \A s \in Stale(sessions.now) :
                     /\ crawler_instances[s].crawler \in sessions'.stopped
                     /\ sessions.clock - sessions.looked_up[s] > InstanceTimeout
              /\ \A s \in DOMAIN crawler_instances' :
                     crawler_instances'[s] = crawler_instances[s]
       /\ ~(sessions.cleanup_pc = "sweep" /\ sessions'.cleanup_pc = "sleep") =>
              DOMAIN crawler_instances \subseteq DOMAIN crawler_instances'
      ]_vars

\* A sweep has removed one session's entry and kept another's that was last
\* looked up exactly one hour before the sweep read the clock.
C24_Witness ==
    /\ sessions.cleanup_pc = "sleep"
    /\ sessions.stopped # {}
    /\ \E s \in DOMAIN crawler_instances :
          /\ sessions.clock - crawler_instances[s].last_accessed = InstanceTimeout
          /\ sessions.wake_at = sessions.clock + SweepEvery

\* The objects of one kind among those handed out.
OfKind(objects, kind) == {o \in objects : o[1] = kind}

\* C25: whatever the interleaving of lookups and sweeps, a session has at
\* most one registry entry, the lookups for a session since its last
\* eviction have all returned the one crawler and the one settings object of
\* its entry, and no object was ever handed to two different sessions.
C25_OneInstancePerSession ==
    /\ DOMAIN crawler_instances \subseteq SessionIds
    /\ \A s \in SessionIds :
          /\ \A kind \in LookupKinds :
                Cardinality(OfKind(sessions.since[s], kind)) <= 1
          /\ sessions.since[s] # {} =>
                /\ s \in DOMAIN crawler_instances
                /\ sessions.since[s] \subseteq
                       {<<kind, crawler_instances[s][kind]>> : kind \in LookupKinds}
    /\ \A s, t \in SessionIds :
          s # t => sessions.handed[s] \cap sessions.handed[t] = {}
    /\ \A s, t \in DOMAIN crawler_instances :
          s # t => /\ crawler_instances[s].crawler # crawler_instances[t].crawler
                   /\ crawler_instances[s].settings # crawler_instances[t].settings

\* Both sessions hold an entry and have been handed both of its objects, and
\* one of them was evicted before and holds its second crawler.
C25_Witness ==
    /\ DOMAIN crawler_instances = SessionIds
    /\ \A s \in SessionIds : Cardinality(sessions.since[s]) = 2
    /\ \E s \in SessionIds :
          Cardinality(OfKind(sessions.handed[s], "crawler")) = 2

(***************************************************************************)
(* The browser page pool of core/js_renderer.py. initialize() runs before  *)
(* any render and is followed as one step; cleanup() awaits between        *)
(* closing the pooled pages, closing the browser and stopping playwright,  *)
(* and render_page awaits between taking its page and handing it back, so  *)
(* those are followed step by step. stop_crawl runs cleanup() from the     *)
(* caller's thread while the worker's renders are in flight.               *)
(***************************************************************************)
JsBrowsers == {"chromium", "firefox"}
PoolConfigs ==
    {[DefaultConfig EXCEPT !.enable_javascript = TRUE,
                           !.js_max_concurrent_pages = n, !.js_browser = b] :
        n \in 1..MaxWorkers, b \in JsBrowsers}

\* self.playwright = await async_playwright().start()
start_playwright(r) ==
    [r EXCEPT !.started = @ + 1, !.playwright = r.started + 1, !.torn_down = FALSE]

\* self.browser = await self.playwright.chromium.connect_over_cdp(remote_url)
connect_over_cdp(r) ==
    [r EXCEPT !.launched = Append(@, [kind |-> "remote", open |-> TRUE]),
              !.browser = Len(r.launched) + 1]

\* self.browser = await self.playwright.<browser_type>.launch(...)
launch(r) ==
    [r EXCEPT !.launched = Append(@, [kind |-> "local", open |-> TRUE]),
              !.browser = Len(r.launched) + 1]

\* if remote_url: connect -- and then the browser_type chain, which is a
\* statement of its own and launches in either case.
obtain_browser(r) == launch(IF r.remote THEN connect_over_cdp(r) ELSE r)

\* The pool loop: max_pages new contexts of self.browser, a page in each,
\* each appended to self.page_pool.
RECURSIVE create_pages(_, _)
create_pages(r, max_pages) ==
    IF max_pages = 0 THEN r
    ELSE create_pages(
            [r EXCEPT !.page_browser = Append(@, r.browser),
                      !.page_pool = Append(@, Len(r.page_browser) + 1)],
            max_pages - 1)

\* cleanup(): the pooled pages' contexts are closed and the pool cleared.
close_pages(r) ==
    [r EXCEPT !.closed = @ \cup Range(r.page_pool), !.page_pool = <<>>]

\* cleanup(): if self.browser: close it; self.browser = None
close_browser(r) ==
    IF r.browser = 0 THEN r
    ELSE [r EXCEPT !.launched[r.browser].open = FALSE, !.browser = 0]

\* cleanup(): if self.playwright: stop it; self.playwright = None
stop_playwright(r) == [r EXCEPT !.playwright = 0, !.torn_down = TRUE]

cleanup(r) == stop_playwright(close_browser(close_pages(r)))

\* A page no navigation can succeed on: its context or its browser is closed.
page_closed(r, page) ==
    page \in r.closed \/ ~r.launched[r.page_browser[page]].open

\* initialize(): it succeeds, or a launch or the first new_context raises
\* and the handler cleans up and re-raises.
Initialize(outcome) ==
    /\ renderer.started < MaxInits
    /\ renderer.cleanup_pc = "idle"
    /\ \A c \in RenderCalls : renderer.rendering[c] = 0
    /\ renderer' =
          CASE outcome = "ok" ->
                 create_pages(obtain_browser(start_playwright(renderer)),
                              config.js_max_concurrent_pages)
            [] outcome = "launch_raises" ->
                 cleanup(IF renderer.remote
                         THEN connect_over_cdp(start_playwright(renderer))
                         ELSE start_playwright(renderer))
            [] outcome = "new_context_raises" ->
                 cleanup(obtain_browser(start_playwright(renderer)))
    /\ UNCHANGED <<crawl_vars, crawler_instances, sessions, threads>>

\* render_page up to get_page(): a page is popped, or the call returns at
\* once with "No JavaScript page available".
RenderBegin(c) ==
    /\ renderer.rendering[c] = 0
    /\ renderer' =
          IF renderer.page_pool = <<>>
          THEN [renderer EXCEPT !.answer = "No JavaScript page available"]
          ELSE [renderer EXCEPT
                  !.rendering[c] = renderer.page_pool[Len(renderer.page_pool)],
                  !.page_pool = SubSeq(@, 1, Len(@) - 1)]
    /\ UNCHANGED <<crawl_vars, crawler_instances, sessions, threads>>

\* render_page from goto to its return: success, timeout or navigation
\* error, and in each case the finally block's return_page.
RenderEnd(c, outcome) ==
    /\ renderer.rendering[c] # 0
    /\ page_closed(renderer, renderer.rendering[c]) => outcome = "Navigation error"
    /\ renderer' = [renderer EXCEPT
                      !.page_pool = Append(@, renderer.rendering[c]),
                      !.rendering[c] = 0,
                      !.answer = outcome]
    /\ UNCHANGED <<crawl_vars, crawler_instances, sessions, threads>>

\* cleanup(), first part: the pool's pages are closed and the pool cleared.
CleanupPages ==
    /\ renderer.cleanup_pc = "idle"
    /\ renderer' = [close_pages(renderer) EXCEPT !.cleanup_pc = "browser"]
    /\ UNCHANGED <<crawl_vars, crawler_instances, sessions, threads>>

\* cleanup(), second part: the browser is closed.
CleanupBrowser ==
    /\ renderer.cleanup_pc = "browser"
    /\ renderer' = [close_browser(renderer) EXCEPT !.cleanup_pc = "playwright"]
    /\ UNCHANGED <<crawl_vars, crawler_instances, sessions, threads>>

\* cleanup(), last part: playwright is stopped and cleanup() returns.
CleanupPlaywright ==
    /\ renderer.cleanup_pc = "playwright"
    /\ renderer' = [stop_playwright(renderer) EXCEPT !.cleanup_pc = "idle"]
    /\ UNCHANGED <<crawl_vars, crawler_instances, sessions, threads>>

PoolInit ==
    /\ config \in PoolConfigs
    /\ is_running = FALSE
    /\ is_paused = FALSE
    /\ crawl_results = <<>>
    /\ stats = [crawled |-> 0, depth |-> 0]
    /\ link_manager = EmptyLinkManager
    /\ db_save_enabled = FALSE
    /\ unsaved_urls = <<>>
    /\ unsaved_links = <<>>
    /\ active_futures = {}
    /\ pc = "none"
    /\ stop_pc = "idle"
    /\ pause_pc = "idle"
    /\ auto_save_alive = FALSE
    /\ db = NoCrawlRow
    /\ next_id = 1
    /\ seed_url = 0
    /\ resumed = "no"
    /\ calls = 0
    /\ fetch = NoFetch
    /\ scan = NoScan
    /\ detected_issues = <<>>
    /\ crawler_instances = <<>>
    /\ sessions = NoSessions
    /\ \E remote \in BOOLEAN : renderer = [NoRenderer EXCEPT !.remote = remote]
    /\ threads = NoThreads

InitializeOutcomes == {"ok", "launch_raises", "new_context_raises"}
RenderOutcomes == {"ok", "JavaScript rendering timeout", "Navigation error"}

PoolNext ==
    \/ \E outcome \in InitializeOutcomes : Initialize(outcome)
    \/ \E c \in RenderCalls : RenderBegin(c)
    \/ \E c \in RenderCalls, outcome \in RenderOutcomes : RenderEnd(c, outcome)
    \/ CleanupPages
    \/ CleanupBrowser
    \/ CleanupPlaywright

PoolSpec == PoolInit /\ [][PoolNext]_vars

\* The pages render_page calls hold.
InUse == {renderer.rendering[c] : c \in RenderCalls} \ {0}

\* C26: whatever the interleaving of render_page calls and cleanup() on a
\* renderer initialised once, no page is held by two calls or held and
\* pooled at once, every returning call puts its page back in the pool, the
\* pooled and the held pages together number js_max_concurrent_pages until
\* cleanup() begins, and the pool is empty once cleanup() has returned.
C26_PoolAccounting ==
    [][/\ \A c, d \in RenderCalls :
              (c # d /\ renderer'.rendering[c] # 0) =>
                  renderer'.rendering[c] # renderer'.rendering[d]
       /\ InUse' \cap Range(renderer'.page_pool) = {}
       /\ \A c \in RenderCalls :
              (renderer.rendering[c] # 0 /\ renderer'.rendering[c] = 0) =>
                  renderer.rendering[c] \in Range(renderer'.page_pool)
       /\ (renderer'.started = 1 /\ renderer'.playwright # 0
              /\ renderer'.cleanup_pc = "idle") =>
              Len(renderer'.page_pool) + Cardinality(InUse')
                  = config.js_max_concurrent_pages
       /\ renderer'.torn_down => renderer'.page_pool = <<>>
      ]_vars

\* The browsers obtained so far that are still open.
OpenBrowsers(r) == {i \in DOMAIN r.launched : r.launched[i].open}

\* A renderer as a successful initialize() leaves it, at rest.
Initialised(r) ==
    /\ r.playwright # 0 /\ r.browser # 0 /\ r.cleanup_pc = "idle"
    /\ \A c \in RenderCalls : r.rendering[c] = 0

\* A renderer as a completed cleanup() leaves it, at rest.
CleanedUp(r) ==
    /\ r.torn_down /\ r.cleanup_pc = "idle" /\ r.page_pool = <<>>
    /\ \A c \in RenderCalls : r.rendering[c] = 0

\* C27: initialize() on a renderer a successful initialize() has just left
\* leaves as many pooled pages and as many open browsers as it found (the
\* pool of js_max_concurrent_pages pages, the one browser), and every step
\* of cleanup() on a renderer a cleanup() has just left leaves the pool
\* empty, the browser and the playwright handle absent and closes nothing.
C27_Idempotent ==
    [][/\ (Initialised(renderer) /\ renderer'.started = renderer.started + 1
              /\ renderer'.playwright # 0) =>
              /\ Len(renderer'.page_pool) = Len(renderer.page_pool)
              /\ Len(renderer'.page_pool) = config.js_max_concurrent_pages
              /\ Cardinality(OpenBrowsers(renderer'))
                     = Cardinality(OpenBrowsers(renderer))
       /\ (CleanedUp(renderer) /\ renderer'.started = renderer.started) =>
              /\ renderer'.page_pool = <<>>
              /\ renderer'.browser = 0 /\ renderer'.playwright = 0
              /\ renderer'.closed = renderer.closed
              /\ renderer'.launched = renderer.launched
      ]_vars

\* C28: with REMOTE_BROWSER set no local browser is ever launched and every
\* page of the pool belongs to the browser attached over CDP; a local
\* browser exists only when REMOTE_BROWSER is absent.
C28_RemoteLaunchesNoLocal ==
    renderer.remote =>
        /\ \A i \in DOMAIN renderer.launched : renderer.launched[i].kind = "remote"
        /\ \A page \in Range(renderer.page_pool) :
              renderer.launched[renderer.page_browser[page]].kind = "remote"

(***************************************************************************)
(* Termination. The crawl engine without stop_crawl and without process    *)
(* termination, under the scheduling the code gives: the worker thread     *)
(* keeps running (its loop sleeps at most a second between iterations), a  *)
(* submitted fetch runs whenever the worker waits on it, and a pause_crawl *)
(* call that has set the flag goes on to its save. The fixture site is     *)
(* finite and every fetch on it returns (TaskRun always has an outcome).   *)
(***************************************************************************)
WorkerStep ==
    \/ HttpLoopHead \/ HttpFill \/ HttpProcess \/ HttpFinalise
    \/ JsInit \/ JsLoopHead \/ JsFill \/ JsProcess \/ JsFinalise

FairNext ==
    \/ \E url \in {1, 2}, with_session \in BOOLEAN : StartCrawl(url, with_session)
    \/ \E i \in 1..MaxWorkers : TaskRun(i)
    \/ WorkerStep
    \/ PauseCrawlBegin
    \/ PauseCrawlSave
    \/ ResumeCrawl
    \/ AutoSave

FairSpec ==
    /\ Init
    /\ [][FairNext]_vars
    /\ WF_vars(WorkerStep)
    /\ WF_vars(PauseCrawlSave)
    /\ \A i \in 1..MaxWorkers : SF_vars(TaskRun(i))

\* The worker has been started and has not yet left its finally block.
Crawling == pc \notin {"none", "done", "failed"}

\* The worker has exited through its finally block with nothing pending
\* and nothing in flight, or with the budget used up.
Finished ==
    /\ pc = "done"
    /\ ~is_running
    /\ active_futures = <<>>
    /\ link_manager.discovered_urls = <<>> \/ stats.crawled >= config.max_urls
    /\ get_status = "completed"
    /\ db_save_enabled => db.status = "completed"

CheckpointOf(lm) ==
    [present |-> TRUE,
     discovered_urls |-> SubSeq(lm.discovered_urls, 1,
                                Min(Len(lm.discovered_urls), CheckpointLimit)),
     visited_urls |-> lm.visited_urls]

\* C31: with persistence enabled, the save of pause_crawl, every auto-save
\* and the save of stop_crawl each leave in the store the checkpoint of the
\* queue as it stands at that moment.
C31_SavesWriteCheckpoint ==
    [][(/\ db_save_enabled
        /\ (PauseCrawlSave \/ AutoSave \/ StopCrawlEnd))
       => db'.resume_checkpoint = CheckpointOf(link_manager)]_vars

(***************************************************************************)
(* Statistics.                                                             *)
(***************************************************************************)
\* C32: in every state, crawled is the number of records in results and
\* depth is the greatest depth among them (0 when there are none), during
\* a crawl, after it ended and after resume_from_database.
C32_StatsMatchResults ==
    /\ stats.crawled = Len(crawl_results)
    /\ stats.depth = SetMax({0} \cup {crawl_results[i].depth : i \in DOMAIN crawl_results})

(***************************************************************************)
(* Depth.                                                                  *)
(***************************************************************************)
\* The least number of internal-link hops from the urls of `frontier`, which
\* are `hops` hops from the seed, to `target`; -1 when no path leads there.
RECURSIVE HopsFrom(_, _, _, _)
HopsFrom(seen, frontier, hops, target) ==
    IF target \in frontier THEN hops
    ELSE IF frontier = {} THEN -1
    ELSE LET new == {t \in InternalUrls :
                        \E s \in frontier : t \in Range(Anchors(s))} \ seen
         IN HopsFrom(seen \cup new, new, hops + 1, target)

Hops(seed, target) == HopsFrom({seed}, {seed}, 0, target)

\* C33: the depth of every record in results is the least number of
\* internal-link hops from the seed to its url, whatever the concurrency
\* and the order in which fetches return, with or without sitemap
\* discovery.
C33_DepthIsLinkDistance ==
    \A i \in DOMAIN crawl_results :
        crawl_results[i].depth = Hops(seed_url, crawl_results[i].url)

(***************************************************************************)
(* The pause flag.                                                         *)
(***************************************************************************)
\* C35: in every reachable state is_paused implies is_running, however
\* pause_crawl interleaves with the worker finishing its crawl, and a crawl
\* just begun by start_crawl or resume_from_database is not paused.
C35_PausedImpliesRunning ==
    [][/\ is_paused' => is_running'
       /\ (~is_running /\ is_running') => ~is_paused']_vars


(***************************************************************************)
(* Threads.  start_crawl followed statement by statement, next to the       *)
(* crawl threads and auto-save threads it starts and to stop_crawl; HTTP    *)
(* path, one fetch at a time.                                               *)
(***************************************************************************)
ThreadConfigs ==
    {c \in CoreConfigs : /\ ~c.enable_javascript
                         /\ c.concurrency = 1
                         /\ c.max_depth = 1
                         /\ c.max_urls = SmallBudget}

Position(c) == threads.start[c].pc

Starting == {c \in StartCalls : Position(c) # "idle"}

Exited == {w \in DOMAIN threads.workers : threads.workers[w] = "exited"}

\* if self.is_running: return False -- the call that finds no crawl running
\* goes on.
StartCheck(c, url, with_session) ==
    /\ Position(c) = "idle"
    /\ threads.started < MaxStarts
    /\ ~is_running
    /\ threads' = [threads EXCEPT
                      !.start[c] = [pc |-> "setup", url |-> url,
                                    with_session |-> with_session],
                      !.started = @ + 1,
                      !.overlapped = \/ @
                                     \/ Starting # {}
                                     \/ Exited # DOMAIN threads.workers]
    /\ UNCHANGED <<config, is_running, is_paused, crawl_results, stats, link_manager,
                   db_save_enabled, unsaved_urls, unsaved_links, active_futures, pc,
                   stop_pc, pause_pc, auto_save_alive, db, next_id, seed_url, resumed,
                   calls, fetch, scan, detected_issues, crawler_instances, sessions,
                   renderer>>

\* The single-page clamp, create_crawl, _initialize_components, _reset_state,
\* the seed and the sitemap discovery.
StartSetup(c) ==
    /\ Position(c) = "setup"
    /\ LET call == threads.start[c]
           cfg == start_config(config, call.url)
           lm0 == add_url(EmptyLinkManager, call.url, 0)
           lm1 == IF cfg.discover_sitemaps
                  THEN add_urls(lm0, cfg, SitemapUrls, 0) ELSE lm0
       IN /\ config' = cfg
          /\ db' = IF call.with_session THEN create_crawl(cfg) ELSE db
          /\ db_save_enabled' = (call.with_session \/ db_save_enabled)
          /\ link_manager' = lm1
          /\ seed_url' = call.url
    /\ crawl_results' = <<>>
    /\ stats' = [crawled |-> 0, depth |-> 0]
    /\ threads' = [threads EXCEPT !.start[c].pc = "autosave"]
    /\ UNCHANGED <<is_running, is_paused, unsaved_urls, unsaved_links, active_futures,
                   pc, stop_pc, pause_pc, auto_save_alive, next_id, resumed, calls,
                   fetch, scan, detected_issues, crawler_instances, sessions,
                   renderer>>

\* if self.db_save_enabled: self._start_auto_save_thread()
StartAutoSave(c) ==
    /\ Position(c) = "autosave"
    /\ threads' = [threads EXCEPT
                      !.start[c].pc = "run",
                      !.savers = IF db_save_enabled THEN Append(@, "check") ELSE @]
    /\ UNCHANGED <<config, is_running, is_paused, crawl_results, stats, link_manager,
                   db_save_enabled, unsaved_urls, unsaved_links, active_futures, pc,
                   stop_pc, pause_pc, auto_save_alive, db, next_id, seed_url, resumed,
                   calls, fetch, scan, detected_issues, crawler_instances, sessions,
                   renderer>>

\* self.is_running = True; the crawl thread is created and started; return.
StartRun(c) ==
    /\ Position(c) = "run"
    /\ is_running' = TRUE
    /\ threads' = [threads EXCEPT
                      !.start[c].pc = "idle",
                      !.workers = Append(@, "test")]
    /\ UNCHANGED <<config, is_paused, crawl_results, stats, link_manager,
                   db_save_enabled, unsaved_urls, unsaved_links, active_futures, pc,
                   stop_pc, pause_pc, auto_save_alive, db, next_id, seed_url, resumed,
                   calls, fetch, scan, detected_issues, crawler_instances, sessions,
                   renderer>>

\* while self.is_running: ... if self.is_paused: sleep, continue
WorkerTest(w) ==
    /\ w \in DOMAIN threads.workers
    /\ threads.workers[w] = "test"
    /\ is_running => ~is_paused
    /\ threads' = [threads EXCEPT
                      !.workers[w] = IF is_running THEN "body" ELSE "finish"]
    /\ UNCHANGED <<config, is_running, is_paused, crawl_results, stats, link_manager,
                   db_save_enabled, unsaved_urls, unsaved_links, active_futures, pc,
                   stop_pc, pause_pc, auto_save_alive, db, next_id, seed_url, resumed,
                   calls, fetch, scan, detected_issues, crawler_instances, sessions,
                   renderer>>

\* One pass of the loop body of a crawl thread with one fetch slot: the
\* next pending url is taken, fetched and recorded, then the two checks
\* that leave the loop.
WorkerBody(w) ==
    /\ w \in DOMAIN threads.workers
    /\ threads.workers[w] = "body"
    /\ IF stats.crawled < config.max_urls /\ link_manager.discovered_urls # <<>>
       THEN LET url_info == Head(link_manager.discovered_urls)
                lm0 == [link_manager EXCEPT !.discovered_urls = Tail(@)]
                t == NewTask(url_info[1], url_info[2], FALSE)
                lm1 == collect_all_links(lm0, t.url)
                new_links == SubSeq(lm1.all_links, Len(lm0.all_links) + 1,
                                    Len(lm1.all_links))
                lm2 == IF should_extract(config, t.url, t.depth)
                       THEN extract_links(lm1, config, t.url, t.depth + 1) ELSE lm1
                done_t == [t EXCEPT !.done = TRUE,
                                    !.linked_from = get_source_pages(lm2, t.url)]
            IN IF depth_exceeded(config, url_info[2])
               THEN /\ link_manager' = lm0
                    /\ UNCHANGED <<crawl_results, stats, unsaved_urls, unsaved_links,
                                   next_id>>
               ELSE /\ link_manager' = lm2
                    /\ crawl_results' = AppendResults(crawl_results, <<done_t>>)
                    /\ stats' = BumpStats(stats, <<done_t>>)
                    /\ unsaved_urls' = IF db_save_enabled
                                       THEN Append(unsaved_urls, ResultOf(done_t))
                                       ELSE unsaved_urls
                    /\ unsaved_links' = IF db_save_enabled
                                        THEN unsaved_links \o new_links
                                        ELSE unsaved_links
                    /\ next_id' = next_id + 1
       ELSE UNCHANGED <<link_manager, crawl_results, stats, unsaved_urls,
                        unsaved_links, next_id>>
    /\ threads' = [threads EXCEPT
                      !.workers[w] =
                          IF stats'.crawled >= config.max_urls THEN "finish"
                          ELSE IF drained(link_manager', <<>>) THEN "finish"
                          ELSE "test"]
    /\ UNCHANGED <<config, is_running, is_paused, db_save_enabled, active_futures, pc,
                   stop_pc, pause_pc, auto_save_alive, db, seed_url, resumed, calls,
                   fetch, scan, detected_issues, crawler_instances, sessions,
                   renderer>>

\* After the loop: linked_from update, final save, status completed,
\* is_running = False.
WorkerFinish(w) ==
    /\ w \in DOMAIN threads.workers
    /\ threads.workers[w] = "finish"
    /\ crawl_results' = update_all_linked_from(link_manager, crawl_results)
    /\ db' = IF db_save_enabled
             THEN set_crawl_status(
                      save_batch_to_db(db, TRUE,
                          update_aliased(link_manager, crawl_results, unsaved_urls),
                          unsaved_links, stats),
                      "completed")
             ELSE db
    /\ unsaved_urls' = IF db_save_enabled THEN <<>> ELSE unsaved_urls
    /\ unsaved_links' = IF db_save_enabled THEN <<>> ELSE unsaved_links
    /\ is_running' = FALSE
    /\ threads' = [threads EXCEPT !.workers[w] = "exited"]
    /\ UNCHANGED <<config, is_paused, stats, link_manager, db_save_enabled,
                   active_futures, pc, stop_pc, pause_pc, auto_save_alive, next_id,
                   seed_url, resumed, calls, fetch, scan, detected_issues,
                   crawler_instances, sessions, renderer>>

\* The auto-save thread: while self.is_running
SaverCheck(t) ==
    /\ t \in DOMAIN threads.savers
    /\ threads.savers[t] = "check"
    /\ threads' = [threads EXCEPT
                      !.savers[t] = IF is_running THEN "sleep" ELSE "exited"]
    /\ UNCHANGED <<config, is_running, is_paused, crawl_results, stats, link_manager,
                   db_save_enabled, unsaved_urls, unsaved_links, active_futures, pc,
                   stop_pc, pause_pc, auto_save_alive, db, next_id, seed_url, resumed,
                   calls, fetch, scan, detected_issues, crawler_instances, sessions,
                   renderer>>

\* The auto-save thread wakes from time.sleep(5); when the interval has
\* passed (due) it flushes the batch and writes a checkpoint.
SaverWake(t, due) ==
    /\ t \in DOMAIN threads.savers
    /\ threads.savers[t] = "sleep"
    /\ db' = IF due /\ db_save_enabled
             THEN save_queue_checkpoint(
                      save_batch_to_db(db, TRUE, unsaved_urls, unsaved_links, stats),
                      TRUE, link_manager)
             ELSE db
    /\ unsaved_urls' = IF due /\ db_save_enabled THEN <<>> ELSE unsaved_urls
    /\ unsaved_links' = IF due /\ db_save_enabled THEN <<>> ELSE unsaved_links
    /\ threads' = [threads EXCEPT !.savers[t] = "check"]
    /\ UNCHANGED <<config, is_running, is_paused, crawl_results, stats, link_manager,
                   db_save_enabled, active_futures, pc, stop_pc, pause_pc,
                   auto_save_alive, next_id, seed_url, resumed, calls, fetch, scan,
                   detected_issues, crawler_instances, sessions, renderer>>

ThreadInit ==
    /\ config \in ThreadConfigs
    /\ is_running = FALSE
    /\ is_paused = FALSE
    /\ crawl_results = <<>>
    /\ stats = [crawled |-> 0, depth |-> 0]
    /\ link_manager = EmptyLinkManager
    /\ db_save_enabled = FALSE
    /\ unsaved_urls = <<>>
    /\ unsaved_links = <<>>
    /\ active_futures = <<>>
    /\ pc = "none"
    /\ stop_pc = "idle"
    /\ pause_pc = "idle"
    /\ auto_save_alive = FALSE
    /\ db = NoCrawlRow
    /\ next_id = 1
    /\ seed_url = 0
    /\ resumed = "no"
    /\ calls = 0
    /\ fetch = NoFetch
    /\ scan = NoScan
    /\ detected_issues = <<>>
    /\ crawler_instances = <<>>
    /\ sessions = NoSessions
    /\ renderer = NoRenderer
    /\ threads = [NoThreads EXCEPT !.configured = config.max_depth]

\* The start_crawl requests followed: an inner page without a session and
\* the root page with one.
StartRequests == {[url |-> 2, with_session |-> FALSE], [url |-> 1, with_session |-> TRUE]}

ThreadNext ==
    \/ \E c \in StartCalls, r \in StartRequests :
          StartCheck(c, r.url, r.with_session)
    \/ \E c \in StartCalls : StartSetup(c)
    \/ \E c \in StartCalls : StartAutoSave(c)
    \/ \E c \in StartCalls : StartRun(c)
    \/ \E w \in 1..MaxStarts : WorkerTest(w)
    \/ \E w \in 1..MaxStarts : WorkerBody(w)
    \/ \E w \in 1..MaxStarts : WorkerFinish(w)
    \/ \E t \in 1..MaxStarts : SaverCheck(t)
    \/ \E t \in 1..MaxStarts, due \in BOOLEAN : SaverWake(t, due)
    \/ StopCrawlBegin
    \/ StopCrawlEnd

ThreadSpec == ThreadInit /\ [][ThreadNext]_vars

Looping == {w \in DOMAIN threads.workers : threads.workers[w] = "body"}

\* C34: at most one crawl worker loop is active per orchestrator, also
\* with concurrent start_crawl calls and after a stop_crawl that returned
\* before its worker left the loop.
C34_OneWorkerLoop == Cardinality(Looping) <= 1

LiveSavers == {t \in DOMAIN threads.savers : threads.savers[t] # "exited"}

\* C38: while a persistence-enabled crawl is running (start_crawl has
\* returned and a crawl thread is in its loop), an auto-save thread is
\* alive.
C38_AutoSaveAlive ==
    (is_running /\ db_save_enabled /\ Starting = {} /\ Looping # {})
        => LiveSavers # {}

\* C39: a start_crawl with a root seed, made when every earlier crawl of
\* the orchestrator is over and no other start_crawl is in progress, crawls
\* to the max_depth that was configured, whatever seeds the earlier crawls
\* had.
C39_ClampOnlyForItsCrawl ==
    [][\A c \in StartCalls :
          (/\ StartSetup(c)
           /\ ~has_path(threads.start[c].url)
           /\ ~threads.overlapped)
             => config'.max_depth = threads.configured]_vars


(***************************************************************************)
(* The store against the orchestrator's memory at the end of a crawl.      *)
(***************************************************************************)
RowIds(rows) == {rows[i].id : i \in DOMAIN rows}

\* One url row per record and one link row per collected link.
StoreMatchesMemory(d, results, lm) ==
    /\ Len(d.urls) = Len(results)
    /\ RowIds(d.urls) = RowIds(results)
    /\ Len(d.links) = Len(lm.all_links)
    /\ LinkKeys(d.links) = LinkKeys(lm.all_links)

\* C36: when a persistence-enabled crawl completes -- started by
\* start_crawl, never stopped, paused or restored, every write succeeding --
\* the store holds one url row per record of the results, no row for a url
\* without a record, and one link row per link of all_links.
C36_StoreHoldsOutcome ==
    [][(/\ HttpFinalise \/ JsFinalise
        /\ db_save_enabled /\ is_running /\ resumed = "no"
        /\ calls = 0 /\ calls' = 0
        /\ pc' = "done")
          => StoreMatchesMemory(db', crawl_results', link_manager')]_vars


(***************************************************************************)
(* _save_batch_to_db followed statement by statement: called by a fetch    *)
(* task and by the auto-save thread while fetch tasks queue rows.          *)
(***************************************************************************)
SavePosition(t) == threads.saving[t]

\* The rows a fetch of url u queues: its url row and its new link rows.
UrlRowOf(u) == [id |-> u, url |-> u, depth |-> 0, linked_from |-> {}]

LinkRowsOf(u) == [i \in DOMAIN Anchors(u) |-> LinkRecord(u, Anchors(u)[i])]

\* _crawl_url_with_requests: self.unsaved_links.extend(new_links);
\* self.unsaved_urls.append(result).  The urls are fetched in their order.
Produce ==
    /\ next_id <= MaxRecords
    /\ unsaved_urls' = Append(unsaved_urls, UrlRowOf(next_id))
    /\ unsaved_links' = unsaved_links \o LinkRowsOf(next_id)
    /\ next_id' = next_id + 1
    /\ UNCHANGED <<config, is_running, is_paused, crawl_results, stats, link_manager,
                   db_save_enabled, active_futures, pc, stop_pc, pause_pc,
                   auto_save_alive, db, seed_url, resumed, calls, fetch, scan,
                   detected_issues, crawler_instances, sessions, renderer, threads>>

\* if not self.db_save_enabled or not self.crawl_id: return
SaveBegin(t) ==
    /\ SavePosition(t) = "idle"
    /\ db_save_enabled
    /\ threads' = [threads EXCEPT !.saving[t] = "urls"]
    /\ UNCHANGED <<config, is_running, is_paused, crawl_results, stats, link_manager,
                   db_save_enabled, unsaved_urls, unsaved_links, active_futures, pc,
                   stop_pc, pause_pc, auto_save_alive, db, next_id, seed_url, resumed,
                   calls, fetch, scan, detected_issues, crawler_instances, sessions,
                   renderer>>

\* if self.unsaved_urls: save_url_batch(self.crawl_id, self.unsaved_urls)
SaveUrls(t) ==
    /\ SavePosition(t) = "urls"
    /\ db' = [db EXCEPT !.urls = @ \o unsaved_urls]
    /\ threads' = [threads EXCEPT
                      !.saving[t] = IF unsaved_urls # <<>> THEN "clear_urls" ELSE "links"]
    /\ UNCHANGED <<config, is_running, is_paused, crawl_results, stats, link_manager,
                   db_save_enabled, unsaved_urls, unsaved_links, active_futures, pc,
                   stop_pc, pause_pc, auto_save_alive, next_id, seed_url, resumed,
                   calls, fetch, scan, detected_issues, crawler_instances, sessions,
                   renderer>>

\* self.unsaved_urls.clear()
ClearUrls(t) ==
    /\ SavePosition(t) = "clear_urls"
    /\ unsaved_urls' = <<>>
    /\ threads' = [threads EXCEPT !.saving[t] = "links"]
    /\ UNCHANGED <<config, is_running, is_paused, crawl_results, stats, link_manager,
                   db_save_enabled, unsaved_links, active_futures, pc, stop_pc,
                   pause_pc, auto_save_alive, db, next_id, seed_url, resumed, calls,
                   fetch, scan, detected_issues, crawler_instances, sessions,
                   renderer>>

\* if self.unsaved_links: save_links_batch(self.crawl_id, self.unsaved_links)
SaveLinks(t) ==
    /\ SavePosition(t) = "links"
    /\ db' = [db EXCEPT !.links = @ \o unsaved_links]
    /\ threads' = [threads EXCEPT
                      !.saving[t] = IF unsaved_links # <<>> THEN "clear_links" ELSE "stats"]
    /\ UNCHANGED <<config, is_running, is_paused, crawl_results, stats, link_manager,
                   db_save_enabled, unsaved_urls, unsaved_links, active_futures, pc,
                   stop_pc, pause_pc, auto_save_alive, next_id, seed_url, resumed,
                   calls, fetch, scan, detected_issues, crawler_instances, sessions,
                   renderer>>

\* self.unsaved_links.clear()
ClearLinks(t) ==
    /\ SavePosition(t) = "clear_links"
    /\ unsaved_links' = <<>>
    /\ threads' = [threads EXCEPT !.saving[t] = "stats"]
    /\ UNCHANGED <<config, is_running, is_paused, crawl_results, stats, link_manager,
                   db_save_enabled, unsaved_urls, active_futures, pc, stop_pc,
                   pause_pc, auto_save_alive, db, next_id, seed_url, resumed, calls,
                   fetch, scan, detected_issues, crawler_instances, sessions,
                   renderer>>

\* update_crawl_stats(..., max_depth=self.stats['depth']); return
SaveStats(t) ==
    /\ SavePosition(t) = "stats"
    /\ db' = [db EXCEPT !.max_depth_reached = stats.depth]
    /\ threads' = [threads EXCEPT !.saving[t] = "idle"]
    /\ UNCHANGED <<config, is_running, is_paused, crawl_results, stats, link_manager,
                   db_save_enabled, unsaved_urls, unsaved_links, active_futures, pc,
                   stop_pc, pause_pc, auto_save_alive, next_id, seed_url, resumed,
                   calls, fetch, scan, detected_issues, crawler_instances, sessions,
                   renderer>>

\* A persistence-enabled crawl in progress, nothing queued or stored yet.
SaveInit ==
    /\ config \in ThreadConfigs
    /\ is_running = TRUE
    /\ is_paused = FALSE
    /\ crawl_results = <<>>
    /\ stats = [crawled |-> 0, depth |-> 0]
    /\ link_manager = add_url(EmptyLinkManager, 1, 0)
    /\ db_save_enabled = TRUE
    /\ unsaved_urls = <<>>
    /\ unsaved_links = <<>>
    /\ active_futures = <<>>
    /\ pc = "loop"
    /\ stop_pc = "idle"
    /\ pause_pc = "idle"
    /\ auto_save_alive = TRUE
    /\ db = create_crawl(config)
    /\ next_id = 1
    /\ seed_url = 1
    /\ resumed = "no"
    /\ calls = 0
    /\ fetch = NoFetch
    /\ scan = NoScan
    /\ detected_issues = <<>>
    /\ crawler_instances = <<>>
    /\ sessions = NoSessions
    /\ renderer = NoRenderer
    /\ threads = NoThreads

SaveNext ==
    \/ Produce
    \/ \E t \in SaveCallers : SaveBegin(t)
    \/ \E t \in SaveCallers : SaveUrls(t)
    \/ \E t \in SaveCallers : ClearUrls(t)
    \/ \E t \in SaveCallers : SaveLinks(t)
    \/ \E t \in SaveCallers : ClearLinks(t)
    \/ \E t \in SaveCallers : SaveStats(t)

SaveSpec == SaveInit /\ [][SaveNext]_vars

Times(rows, row) == Cardinality({i \in DOMAIN rows : rows[i] = row})

QueuedUrlRows == {UrlRowOf(id) : id \in 1..(next_id - 1)}

QueuedLinkRows == UNION {Range(LinkRowsOf(id)) : id \in 1..(next_id - 1)}

\* C37: with fetch tasks queuing rows and two callers in _save_batch_to_db,
\* whenever no save is in progress every row queued so far is either still
\* queued or in the store, and there exactly once.
C37_EachRowWrittenOnce ==
    (\A t \in SaveCallers : SavePosition(t) = "idle")
        => /\ \A row \in QueuedUrlRows :
                 Times(db.urls, row) + Times(unsaved_urls, row) = 1
           /\ \A row \in QueuedLinkRows :
                 Times(db.links, row) + Times(unsaved_links, row) = 1

====
